---- MODULE Spec2Model ----
(***************************************************************************)
(* Progressive-enhancement pipeline of the PubMed background processor     *)
(* (src/src/background_processor.py) with its collaborators                *)
(* DataProcessor (src/src/data_processor.py), FullTextDownloader           *)
(* (src/src/fulltext_downloader.py) and StorageManager                     *)
(* (src/src/storage_manager.py).                                           *)
(*                                                                         *)
(* Spec      : the four pipeline workers on the shared asyncio queue;      *)
(*             FairSpec adds the fairness of the event loop.               *)
(* ChunkSpec : _create_rag_chunks applied to bounded texts.                *)
(* GitSpec   : the GitManager (src/src/git_manager.py) under its callers.  *)
(* SchedSpec : the feed and status schedulers (_rss_worker,                *)
(*             _status_worker) with the GitManager they share.             *)
(* StoreSpec : store_article_fulltext and get_article_fulltext of the      *)
(*             StorageManager on its directories and its S3 bucket.        *)
(* IndexSpec : the pipeline workers with failing search terms and the      *)
(*             index persister (_index_worker).                            *)
(* LifeSpec  : start(), stop() and the loops of the seven workers;         *)
(*             FairLifeSpec adds the fairness of the event loop.           *)
(* DownloadSpec : one call of download_full_text over its four adapters.   *)
(* ApiSpec   : GET and DELETE /results/{search_id} (src/src/app.py).       *)
(* RestartSpec : start() and stop() called in any order, every start()     *)
(*             with tasks of its own; FairRestartSpec adds fairness.       *)
(*                                                                         *)
(* Abstractions.  An article is identified by its pmid; its title,         *)
(* abstract and keywords are represented by the relevance score that       *)
(* _calculate_relevance_score computes from them, in tenths (0.3 is 3).    *)
(* A full text is "" or "text" in the pipeline; in ChunkSpec a text is the *)
(* list of the lengths of the words text.split() returns.  A file is       *)
(* represented by its existence (and, for article.json, its                *)
(* processing_stage).  Every step between two suspension points of the     *)
(* event loop is one action: Queue.put on the unbounded queue and the      *)
(* coroutines that contain no await never suspend.                         *)
(* A time is a number of seconds since the start of the run and None is    *)
(* -1.  The git subprocesses are represented by their outcomes: whether    *)
(* _commit_changes and _push_changes return True.  The GitManager runs     *)
(* them with the blocking subprocess.run, so one call is one action, and   *)
(* so is one iteration of a scheduler up to its asyncio.sleep.             *)
(* In StoreSpec a full text is a sequence of characters, of which only the *)
(* letter, the carriage return and the line feed are told apart.           *)
(***************************************************************************)
EXTENDS Integers, Sequences, FiniteSets, TLC

VARIABLES
    processed_pmids,    \* self.processed_pmids, the Dedup Index
    processing_queue,   \* self.processing_queue, head at index 1
    search_pos,         \* number of search_articles calls made by _search_worker
    ft_item,            \* the item _fulltext_worker holds while it downloads
    abstract_files,     \* pmids with articles/<pmid>/abstract/content.txt
    metadata_files,     \* pmid -> processing_stage of articles/<pmid>/metadata/article.json
    text_files,         \* pmids with texts/<pmid>.txt of the StorageManager
    pdf_files,          \* pmids with pdfs/<pmid>.pdf of the FullTextDownloader
    download_files,     \* pmid -> download the FullTextDownloader saved, or NoDownload
    chunk_files,        \* pmids with articles/<pmid>/ocr/rag_chunks.json
    searchable_files,   \* pmids with articles/<pmid>/ocr/searchable_text.txt
    last_stage,         \* history: pmid -> stage of the last WorkItem emitted for it
    fulltext_failed,    \* history: pmids whose download failed on every adapter
    write_failures,     \* number of file writes that have failed
    ev,                 \* the last step: what was taken, what it did
    text,               \* ChunkSpec: word lengths of the text to chunk
    chunk_size,         \* ChunkSpec: parameter chunk_size
    overlap,            \* ChunkSpec: parameter overlap
    chunks,             \* ChunkSpec: result of _create_rag_chunks
    chunk_pc,           \* ChunkSpec: "ready", "done" or "raised"
    git_manager,        \* GitManager: [commit_count, last_push_time]
    now,                \* datetime.now(), in seconds
    rec_stage,          \* GitSpec: the stage whose items the caller records
    rec_count,          \* GitSpec: cumulative count of the items recorded
    since_commit,       \* history: items recorded since the last commit
    git_ev,             \* the last GitManager call: arguments and what it did
    last_rss_generation,  \* self.last_rss_generation, or None
    last_status_update,   \* self.last_status_update, or None
    rss_wake,           \* time at which the sleep of _rss_worker ends
    status_wake,        \* time at which the sleep of _status_worker ends
    sched_ev,           \* the last scheduler iteration: what it did, in order
    texts_dir,          \* StoreSpec: pmid -> content of texts/<pmid>.txt, or NoFile
    metadata_dir,       \* StoreSpec: pmid -> document in metadata/<pmid>.json, or NoFile
    s3_texts,           \* StoreSpec: pmid -> content of the object texts/<pmid>.txt
    s3_metadata,        \* StoreSpec: pmid -> document in the object metadata/<pmid>.json
    s3_available,       \* StoreSpec: self.s3_available
    linesep,            \* StoreSpec: os.linesep of the platform
    store_calls,        \* StoreSpec: number of store_article_fulltext calls made
    store_ev,           \* StoreSpec: the last StorageManager call and its result
    index_file,         \* index/processed_pmids.json: whether it exists and
                        \* parses, its list 'pmids', its 'total_processed'
    failed_terms,       \* history: positions of the searches whose term failed
    running,            \* self.running
    start_pc,           \* where start() is: "idle", "gather" or "returned"
    worker_pc,          \* worker -> where its coroutine is
    term_idx,           \* LifeSpec: the term _search_worker is searching, or 0
    config_keys,        \* LifeSpec: the keys self.config has
    dl_article,         \* DownloadSpec: the article download_full_text is given
    dl_existing,        \* DownloadSpec: the earlier download of its pmid, or NoDownload
    dl_outcomes,        \* DownloadSpec: adapter -> what a call of it does
    dl_tried,           \* DownloadSpec: the adapters called, in order
    dl_result,          \* DownloadSpec: the dictionary returned
    dl_pc,              \* DownloadSpec: "ready" or "done"
    search_files,       \* ApiSpec: search_id -> number of results in
                        \* search_results/<search_id>.json, or NoResults
    api_ev,             \* ApiSpec: the last request and its response
    tasks,              \* RestartSpec: start() call -> worker -> state of the task
    start_calls,        \* RestartSpec: start() call -> where the call is
    last_call           \* RestartSpec: the last call of start() or stop()

pipeline_vars == <<processed_pmids, processing_queue, search_pos, ft_item,
                   abstract_files, metadata_files, text_files, pdf_files,
                   download_files, chunk_files, searchable_files, last_stage,
                   fulltext_failed, write_failures, ev>>

chunk_vars == <<text, chunk_size, overlap, chunks, chunk_pc>>

git_vars == <<git_manager, now, rec_stage, rec_count, since_commit, git_ev>>

sched_vars == <<last_rss_generation, last_status_update, rss_wake, status_wake,
                sched_ev>>

store_vars == <<texts_dir, metadata_dir, s3_texts, s3_metadata, s3_available,
                linesep, store_calls, store_ev>>

\* The variables of the specifications that follow SchedSpec.
index_vars == <<index_file, failed_terms>>

life_vars == <<running, start_pc, worker_pc, term_idx, config_keys>>

download_vars == <<dl_article, dl_existing, dl_outcomes, dl_tried, dl_result, dl_pc>>

api_vars == <<search_files, api_ev>>

restart_vars == <<tasks, start_calls, last_call>>

more_vars == <<download_vars, api_vars, restart_vars>>

ext_vars == <<store_vars, index_vars, life_vars, more_vars>>

vars == <<pipeline_vars, chunk_vars, git_vars, sched_vars, ext_vars>>

----------------------------------------------------------------------------
(* Bounds of the model *)

MaxQueue == 2        \* items in the queue
MaxSearches == 2     \* search_articles calls in a run
MaxResults == 2      \* articles one search_articles call returns
MaxWriteFailures == 1 \* file writes that fail in a run
MaxStarts == 2       \* calls of start() that create tasks

(* Program constants *)

RelevanceThreshold == 3     \* data_processor.py:69, 0.3 in tenths
DefaultChunkSize == 1000    \* background_processor.py:455
DefaultOverlap == 200       \* background_processor.py:455
MinChunkChars == 50         \* background_processor.py:464

PMIDs == {"111", "222"}

\* The relevance score of the article PubMed returns for a pmid, in tenths:
\* "111" is exactly at the threshold (kept), "222" just below it (filtered).
ArticleScore == [p \in PMIDs |-> IF p = "111" THEN 3 ELSE 2]

\* config["search_terms"], flattened in the order of the two nested loops
SearchTerms == << [category |-> "extraction", term |-> "cannabis extraction"],
                  [category |-> "stability",  term |-> "terpene stability"] >>

Stages == <<"metadata", "fulltext", "ocr", "complete">>

StageRank(s) == CHOOSE k \in 1..Len(Stages) : Stages[k] = s

----------------------------------------------------------------------------
(* Records *)

\* An article dictionary as PubMedScraper._extract_article_data returns it:
\* it has no full_text, full_text_source or pdf_path key (get() gives "").
RawArticle(p, s) ==
    [pmid |-> p, score |-> s, full_text |-> "", full_text_source |-> "", pdf_path |-> ""]

\* The dictionary the adapters and _check_existing_download return: it has no
\* pmid and no title, abstract or keywords.
FulltextData(src, pdf) ==
    [pmid |-> "", score |-> 0, full_text |-> "text", full_text_source |-> src, pdf_path |-> pdf]

NoArticle == RawArticle("", 0)

WorkItem(p, a, st, c, t) ==
    [pmid |-> p, article |-> a, stage |-> st, category |-> c, search_term |-> t]

NoItem == WorkItem("", NoArticle, "none", "", "")

NoDownload == [source |-> "", pdf_path |-> ""]

\* The articles a search may return; pmid "" is a record without a PMID text.
SearchArticles == {RawArticle(p, ArticleScore[p]) : p \in PMIDs} \cup {RawArticle("", 3)}

SeqsUpTo(S, n) == UNION {[1..k -> S] : k \in 0..n}

\* The last step: the operation, the pmid and stage of the item it took from
\* the queue, the set of pmids a search sighted, and whether its writes
\* succeeded.
Event(op, item, results, write_ok) ==
    [op |-> op, pmid |-> item.pmid, stage |-> item.stage,
     results |-> results, write_ok |-> write_ok]

----------------------------------------------------------------------------
(* _search_worker *)

\* Mutant: the sighting does not consult the Dedup Index.
RECURSIVE NewWorkItemsNoDedup(_, _, _, _)
NewWorkItemsNoDedup(articles, processed, category, term) ==
    IF articles = <<>> THEN <<>>
    ELSE LET article == Head(articles)
             rest == NewWorkItemsNoDedup(Tail(articles), processed, category, term)
         IN  IF article.pmid # ""
             THEN <<[pmid |-> article.pmid, article |-> article, stage |-> "metadata",
                     category |-> category, search_term |-> term]>> \o rest
             ELSE rest

\* for article in articles: if pmid and pmid not in self.processed_pmids: put(...)
RECURSIVE NewWorkItems(_, _, _, _)
NewWorkItems(articles, processed, category, term) ==
    IF articles = <<>> THEN <<>>
    ELSE LET article == Head(articles)
             pmid == article.pmid
             rest == NewWorkItems(Tail(articles), processed, category, term)
         IN  IF pmid # "" /\ pmid \notin processed
             THEN <<WorkItem(pmid, article, "metadata", category, term)>> \o rest
             ELSE rest

\* The history after the items are put, one after the other.
RECURSIVE LogEmitted(_, _)
LogEmitted(log, items) ==
    IF items = <<>> THEN log
    ELSE LogEmitted([log EXCEPT ![Head(items).pmid] = Head(items).stage], Tail(items))

Pmids(articles) == {articles[i].pmid : i \in 1..Len(articles)}

_search_worker ==
    /\ search_pos < MaxSearches
    /\ \E articles \in SeqsUpTo(SearchArticles, MaxResults) :
        LET cur == SearchTerms[(search_pos % Len(SearchTerms)) + 1]
            new == NewWorkItems(articles, processed_pmids, cur.category, cur.term)
        IN  /\ Len(processing_queue) + Len(new) <= MaxQueue
            /\ processing_queue' = processing_queue \o new
            /\ last_stage' = LogEmitted(last_stage, new)
            /\ ev' = Event("search", NoItem, Pmids(articles), TRUE)
    /\ search_pos' = search_pos + 1
    /\ UNCHANGED <<processed_pmids, ft_item, abstract_files, metadata_files,
                   text_files, pdf_files, download_files, chunk_files,
                   searchable_files, fulltext_failed, write_failures>>

----------------------------------------------------------------------------
(* DataProcessor *)

\* Mutant: no relevance filter.
_process_single_article_unfiltered(article) == article

\* Returns the enriched article, or NoArticle for Python's None when the
\* relevance score is below the threshold.  The score is the only part of
\* the enrichment the pipeline reads.
_process_single_article(article) ==
    IF article.score < RelevanceThreshold THEN NoArticle ELSE article

\* Mutant: a filtered article stays in the list.
process_articles_unfiltered(articles) == articles

\* The list of the enriched articles: a filtered article is left out, so the
\* list can be shorter than the input (and empty).
RECURSIVE process_articles(_)
process_articles(articles) ==
    IF articles = <<>> THEN <<>>
    ELSE LET processed_article == _process_single_article(Head(articles))
         IN  IF processed_article # NoArticle
             THEN <<processed_article>> \o process_articles(Tail(articles))
             ELSE process_articles(Tail(articles))

----------------------------------------------------------------------------
(* _processing_worker, the metadata worker *)

\* Where a write of _store_metadata_and_abstract fails: the abstract is
\* written first, the metadata second; the exception is caught and logged
\* inside the method, which returns normally either way.
StoreFailures == {"none", "abstract", "metadata"}

\* The run has room for one more failed write.
CanFail(failed) == failed => write_failures < MaxWriteFailures

CountFailure(failed) == IF failed THEN write_failures + 1 ELSE write_failures

abstract_after_store(pmid, fail) ==
    IF fail = "abstract" THEN abstract_files ELSE abstract_files \cup {pmid}

metadata_after_store(pmid, fail) ==
    IF fail = "none"
    THEN [metadata_files EXCEPT ![pmid] = "metadata_abstract"]
    ELSE metadata_files

\* Mutant: the successor keeps the stage of the item consumed.
MetadataSuccessorSameStage(item, processed_article) ==
    [pmid |-> item.pmid, article |-> processed_article, stage |-> item.stage,
     category |-> item.category, search_term |-> item.search_term]

add_processed_replacing(processed, pmid) == {pmid}

\* self.processed_pmids.add(pmid)
add_processed(processed, pmid) == processed \cup {pmid}

\* The item put for full-text processing (lines 199-205).
MetadataSuccessor(item, processed_article) ==
    WorkItem(item.pmid, processed_article, "fulltext", item.category, item.search_term)

\* Mutant: the worker does not consult the Dedup Index.
already_processed_never(processed, pmid) == FALSE

\* "if pmid in self.processed_pmids: continue"
already_processed(processed, pmid) == pmid \in processed

_processing_worker ==
    /\ processing_queue # <<>>
    /\ LET item == Head(processing_queue)
           pmid == item.pmid
           processed == process_articles(<<item.article>>)
       IN  IF already_processed(processed_pmids, pmid)
           THEN \* continue: the item is gone, whatever its stage
                /\ processing_queue' = Tail(processing_queue)
                /\ ev' = Event("meta_skip", item, {}, TRUE)
                /\ UNCHANGED <<processed_pmids, abstract_files, metadata_files,
                               last_stage, write_failures>>
           ELSE IF processed = <<>>
           THEN \* process_articles(...)[0] raises IndexError: except branch
                /\ processing_queue' = Tail(processing_queue)
                /\ ev' = Event("meta_error", item, {}, TRUE)
                /\ UNCHANGED <<processed_pmids, abstract_files, metadata_files,
                               last_stage, write_failures>>
           ELSE \E fail \in StoreFailures :
                LET next == MetadataSuccessor(item, processed[1])
                IN  /\ CanFail(fail # "none")
                    /\ write_failures' = CountFailure(fail # "none")
                    /\ abstract_files' = abstract_after_store(pmid, fail)
                    /\ metadata_files' = metadata_after_store(pmid, fail)
                    /\ processing_queue' = Append(Tail(processing_queue), next)
                    /\ processed_pmids' = add_processed(processed_pmids, pmid)
                    /\ last_stage' = LogEmitted(last_stage, <<next>>)
                    /\ ev' = Event("meta_done", item, {}, fail = "none")
    /\ UNCHANGED <<search_pos, ft_item, text_files, pdf_files, download_files,
                   chunk_files, searchable_files, fulltext_failed>>

----------------------------------------------------------------------------
(* FullTextDownloader *)

\* sources, in order of preference
Adapters == <<"pubmed_central", "arxiv", "sci_hub", "direct_pdf">>

\* What one adapter call does: it returns a dictionary with full text
\* ("text"), returns None ("none") or raises ("raise").
AdapterOutcomes == {"text", "none", "raise"}

\* _download_from_pubmed_central returns pdf_path '' ; the three other
\* adapters write <pdf_dir>/<pmid>.pdf and return its path, represented by
\* the pmid.
AdapterResult(source_name, pmid) ==
    FulltextData(source_name, IF source_name = "pubmed_central" THEN "" ELSE pmid)

\* The index of the first adapter, from k on, that yields full text; 0 if none.
RECURSIVE FirstSuccess(_, _)
FirstSuccess(outcomes, k) ==
    IF k > Len(Adapters) THEN 0
    ELSE IF outcomes[Adapters[k]] = "text" THEN k
    ELSE FirstSuccess(outcomes, k + 1)

\* The outcomes of the four adapter calls of one download.  The adapters
\* after the first success are not called: their outcome is fixed to "none".
AdapterRuns ==
    {o \in [{Adapters[k] : k \in 1..Len(Adapters)} -> AdapterOutcomes] :
        \A k \in 1..Len(Adapters) :
            (FirstSuccess(o, 1) # 0 /\ k > FirstSuccess(o, 1)) => o[Adapters[k]] = "none"}

\* _check_existing_download
_check_existing_download(existing) ==
    IF existing # NoDownload
    THEN FulltextData(existing.source, existing.pdf_path)
    ELSE NoArticle

\* The adapters the loop over `sources` calls from the k-th on: it stops
\* after the first that yields full text; one that returns nothing or
\* raises is followed by the next.
RECURSIVE sources_tried_from(_, _)
sources_tried_from(outcomes, k) ==
    IF k > Len(Adapters) THEN <<>>
    ELSE IF outcomes[Adapters[k]] = "text" THEN <<Adapters[k]>>
    ELSE <<Adapters[k]>> \o sources_tried_from(outcomes, k + 1)

\* The adapters one download_full_text calls: none when an earlier
\* download exists.
sources_tried(existing, outcomes) ==
    IF _check_existing_download(existing) # NoArticle THEN <<>>
    ELSE sources_tried_from(outcomes, 1)

download_full_text_last_success(article, existing, outcomes) ==
    IF _check_existing_download(existing) # NoArticle
    THEN _check_existing_download(existing)
    ELSE IF FirstSuccess(outcomes, 1) = 0 THEN article
    ELSE AdapterResult(
            Adapters[CHOOSE k \in 1..Len(Adapters) :
                        /\ outcomes[Adapters[k]] = "text"
                        /\ \A j \in (k + 1)..Len(Adapters) : outcomes[Adapters[j]] # "text"],
            article.pmid)

\* The value download_full_text returns: the earlier download if there is
\* one, else the result of the first adapter that succeeds, else the article
\* it was given.
download_full_text(article, existing, outcomes) ==
    IF _check_existing_download(existing) # NoArticle
    THEN _check_existing_download(existing)
    ELSE LET k == FirstSuccess(outcomes, 1)
         IN  IF k # 0 THEN AdapterResult(Adapters[k], article.pmid) ELSE article

----------------------------------------------------------------------------
(* _fulltext_worker *)

\* Mutant: the mismatched item is not put back.
put_back_dropping(queue, item) == Tail(queue)

\* "await self.processing_queue.put(item); continue" after the get: the item
\* taken from the head goes to the tail as it is.
put_back(queue, item) == Append(Tail(queue), item)

\* item = get(); a mismatched item is put back at the tail in the same step,
\* a fulltext item is held while download_full_text runs.
_fulltext_worker_get ==
    /\ ft_item = NoItem
    /\ processing_queue # <<>>
    /\ LET item == Head(processing_queue)
       IN  IF item.stage # "fulltext"
           THEN /\ processing_queue' = put_back(processing_queue, item)
                /\ ft_item' = ft_item
                /\ ev' = Event("fulltext_requeue", item, {}, TRUE)
           ELSE /\ processing_queue' = Tail(processing_queue)
                /\ ft_item' = item
                /\ ev' = Event("fulltext_get", item, {}, TRUE)
    /\ UNCHANGED <<processed_pmids, search_pos, abstract_files, metadata_files,
                   text_files, pdf_files, download_files, chunk_files,
                   searchable_files, last_stage, fulltext_failed, write_failures>>

\* Mutant: "if fulltext_data:" without the test of its full_text.
FulltextSuccessorAnyResult(item, fulltext_data) ==
    <<[pmid |-> item.pmid, article |-> fulltext_data, stage |-> "ocr",
       category |-> item.category, search_term |-> item.search_term]>>

\* The items put after the download (lines 237-248): one 'ocr' item when the
\* result has full text, none otherwise.
FulltextSuccessor(item, fulltext_data) ==
    IF fulltext_data.full_text # ""
    THEN <<WorkItem(item.pmid, fulltext_data, "ocr", item.category, item.search_term)>>
    ELSE <<>>

\* download_full_text returns; store_article_fulltext (its result ignored)
\* and the put of the 'ocr' item follow when the result has full text.
_fulltext_worker_download ==
    /\ ft_item # NoItem
    /\ \E outcomes \in AdapterRuns, store_ok \in BOOLEAN :
        LET item == ft_item
            pmid == item.pmid
            article == item.article
            existing == download_files[article.pmid]
            k == FirstSuccess(outcomes, 1)
            downloaded == existing = NoDownload /\ k # 0
            fulltext_data == download_full_text(article, existing, outcomes)
            next == FulltextSuccessor(item, fulltext_data)
        IN  /\ pdf_files' = IF downloaded /\ fulltext_data.pdf_path # ""
                            THEN pdf_files \cup {fulltext_data.pdf_path}
                            ELSE pdf_files
            \* _save_full_text
            /\ download_files' =
                   IF downloaded
                   THEN [download_files EXCEPT ![article.pmid] =
                            [source |-> fulltext_data.full_text_source,
                             pdf_path |-> fulltext_data.pdf_path]]
                   ELSE download_files
            /\ fulltext_failed' = IF existing = NoDownload /\ k = 0
                                  THEN fulltext_failed \cup {pmid}
                                  ELSE fulltext_failed
            /\ IF next # <<>>
               THEN /\ CanFail(~store_ok)
                    /\ write_failures' = CountFailure(~store_ok)
                    /\ text_files' = IF store_ok THEN text_files \cup {pmid} ELSE text_files
                    /\ processing_queue' = processing_queue \o next
                    /\ last_stage' = LogEmitted(last_stage, next)
                    /\ ev' = Event("fulltext_done", item, {}, store_ok)
               ELSE /\ store_ok
                    /\ ev' = Event("fulltext_drop", item, {}, TRUE)
                    /\ UNCHANGED <<text_files, processing_queue, last_stage, write_failures>>
    /\ ft_item' = NoItem
    /\ UNCHANGED <<processed_pmids, search_pos, abstract_files, metadata_files,
                   chunk_files, searchable_files>>

----------------------------------------------------------------------------
(* _ocr_worker, the chunk worker *)

\* Where a write of _process_ocr_for_rag fails; the exception is caught and
\* logged inside the method.
OcrFailures == {"none", "chunks", "searchable", "metadata"}

\* The files after _process_ocr_for_rag(pmid, article): nothing is written
\* unless article has a pdf_path and that file exists.
_process_ocr_for_rag(pmid, article, fail) ==
    LET has_pdf == article.pdf_path # "" /\ article.pdf_path \in pdf_files
        wrote_chunks == has_pdf /\ fail # "chunks"
        wrote_searchable == wrote_chunks /\ fail # "searchable"
        updated_metadata == wrote_searchable /\ metadata_files[pmid] # "none"
                            /\ fail # "metadata"
    IN  [failed |-> has_pdf /\ fail # "none"
                      /\ (fail = "metadata" => metadata_files[pmid] # "none"),
         chunk_files |-> IF wrote_chunks THEN chunk_files \cup {pmid} ELSE chunk_files,
         searchable_files |-> IF wrote_searchable THEN searchable_files \cup {pmid}
                              ELSE searchable_files,
         metadata_files |-> IF updated_metadata
                            THEN [metadata_files EXCEPT ![pmid] = "complete"]
                            ELSE metadata_files]

_ocr_worker ==
    /\ processing_queue # <<>>
    /\ LET item == Head(processing_queue)
       IN  IF item.stage # "ocr"
           THEN /\ processing_queue' = put_back(processing_queue, item)
                /\ ev' = Event("ocr_requeue", item, {}, TRUE)
                /\ UNCHANGED <<chunk_files, searchable_files, metadata_files, write_failures>>
           ELSE \E fail \in OcrFailures :
                LET files == _process_ocr_for_rag(item.pmid, item.article, fail)
                IN  /\ CanFail(files.failed)
                    /\ write_failures' = CountFailure(files.failed)
                    /\ processing_queue' = Tail(processing_queue)
                    /\ chunk_files' = files.chunk_files
                    /\ searchable_files' = files.searchable_files
                    /\ metadata_files' = files.metadata_files
                    /\ ev' = Event("ocr_done", item, {}, ~files.failed)
    /\ UNCHANGED <<processed_pmids, search_pos, ft_item, abstract_files, text_files,
                   pdf_files, download_files, last_stage, fulltext_failed>>

----------------------------------------------------------------------------
(* GitManager *)

\* self.last_push_time, self.last_rss_generation and self.last_status_update
\* are None until they are first set; a time is a number of seconds >= 0.
None == 0 - 1

HourlyPushSeconds == 3600

\* The keys of commit_conditions and push_conditions that depend on the count.
CommitEvery == [metadata |-> 10, abstract |-> 5, fulltext |-> 3, ocr |-> 2]

PushEvery == [metadata |-> 50, abstract |-> 25, fulltext |-> 10, ocr |-> 5]

CadenceStages == DOMAIN CommitEvery

AlwaysStages == {"batch_complete", "status_update"}

\* Stage names callers pass that are keys of neither, or of one, dictionary.
OtherStages == {"hourly", "rss_update"}

GitManagerInit == [commit_count |-> 0, last_push_time |-> None]

_should_commit_ignoring_force(stage, count, force_push) ==
    IF stage \in CadenceStages THEN count % CommitEvery[stage] = 0
    ELSE stage \in AlwaysStages

_should_commit(stage, count, force_push) ==
    IF force_push THEN TRUE
    ELSE IF stage \in CadenceStages THEN count % CommitEvery[stage] = 0
    ELSE IF stage \in AlwaysStages THEN TRUE
    ELSE FALSE

_is_hourly_push_needed(last_push_time, t) ==
    IF last_push_time = None THEN TRUE
    ELSE t - last_push_time > HourlyPushSeconds

_should_push(stage, count, force_push, last_push_time, t) ==
    IF force_push THEN TRUE
    ELSE IF stage \in CadenceStages THEN count % PushEvery[stage] = 0
    ELSE IF stage \in AlwaysStages THEN TRUE
    ELSE IF stage = "hourly" THEN _is_hourly_push_needed(last_push_time, t)
    ELSE FALSE

\* What one call did: the GitManager after it, the number of times it ran
\* _commit_changes and _push_changes, whether they succeeded, its result.
GitResult(g, commit_attempts, push_attempts, committed, pushed, ret) ==
    [git_manager |-> g,
     commit_attempts |-> commit_attempts, push_attempts |-> push_attempts,
     committed |-> committed, pushed |-> pushed, ret |-> ret]

\* (result of _commit_changes, result of _push_changes): the outcomes of
\* the git subprocesses.  The push outcome is read only after a commit.
GitOutcomes == {<<TRUE, TRUE>>, <<TRUE, FALSE>>, <<FALSE, FALSE>>}

commit_and_push_if_needed_push_after_failed_commit(g, stage, count, force_push, commit_ok, push_ok, t) ==
    IF ~_should_commit(stage, count, force_push)
    THEN GitResult(g, 0, 0, FALSE, FALSE, FALSE)
    ELSE LET g1 == IF commit_ok THEN [g EXCEPT !.commit_count = @ + 1] ELSE g
         IN  IF _should_push(stage, count, force_push, g1.last_push_time, t)
             THEN IF push_ok
                  THEN GitResult([g1 EXCEPT !.last_push_time = t], 1, 1, commit_ok, TRUE, TRUE)
                  ELSE GitResult(g1, 1, 1, commit_ok, FALSE, FALSE)
             ELSE GitResult(g1, 1, 0, commit_ok, FALSE, commit_ok)

commit_and_push_if_needed_retrying_push(g, stage, count, force_push, commit_ok, push_ok, t) ==
    IF ~_should_commit(stage, count, force_push)
    THEN GitResult(g, 0, 0, FALSE, FALSE, FALSE)
    ELSE IF ~commit_ok
    THEN GitResult(g, 1, 0, FALSE, FALSE, FALSE)
    ELSE LET g1 == [g EXCEPT !.commit_count = @ + 1]
         IN  IF _should_push(stage, count, force_push, g1.last_push_time, t)
             THEN IF push_ok
                  THEN GitResult([g1 EXCEPT !.last_push_time = t], 1, 1, TRUE, TRUE, TRUE)
                  ELSE GitResult(g1, 1, 2, TRUE, FALSE, FALSE)
             ELSE GitResult(g1, 1, 0, TRUE, FALSE, TRUE)

commit_and_push_if_needed(g, stage, count, force_push, commit_ok, push_ok, t) ==
    IF ~_should_commit(stage, count, force_push)
    THEN GitResult(g, 0, 0, FALSE, FALSE, FALSE)
    ELSE IF ~commit_ok
    THEN GitResult(g, 1, 0, FALSE, FALSE, FALSE)
    ELSE LET g1 == [g EXCEPT !.commit_count = @ + 1]
         IN  IF _should_push(stage, count, force_push, g1.last_push_time, t)
             THEN IF push_ok
                  THEN GitResult([g1 EXCEPT !.last_push_time = t], 1, 1, TRUE, TRUE, TRUE)
                  ELSE GitResult(g1, 1, 1, TRUE, FALSE, FALSE)
             ELSE GitResult(g1, 1, 0, TRUE, FALSE, TRUE)

force_commit_and_push_stamping_failed_push(g, commit_ok, push_ok, t) ==
    IF ~commit_ok
    THEN GitResult(g, 1, 0, FALSE, FALSE, FALSE)
    ELSE GitResult([g EXCEPT !.last_push_time = t], 1, 1, TRUE, push_ok, push_ok)

force_commit_and_push(g, commit_ok, push_ok, t) ==
    IF ~commit_ok
    THEN GitResult(g, 1, 0, FALSE, FALSE, FALSE)
    ELSE IF push_ok
    THEN GitResult([g EXCEPT !.last_push_time = t], 1, 1, TRUE, TRUE, TRUE)
    ELSE GitResult(g, 1, 1, TRUE, FALSE, FALSE)

\* The record of one call kept in git_ev.
GitEvent(op, stage, count, force_push, outcome, r) ==
    [op |-> op, stage |-> stage, count |-> count, force_push |-> force_push,
     commit_ok |-> outcome[1], push_ok |-> outcome[2],
     commit_attempts |-> r.commit_attempts, push_attempts |-> r.push_attempts,
     committed |-> r.committed, pushed |-> r.pushed, ret |-> r.ret]

NoGitResult == GitResult(GitManagerInit, 0, 0, FALSE, FALSE, FALSE)

NoGitEvent == GitEvent("init", "", 0, FALSE, <<FALSE, FALSE>>, NoGitResult)

----------------------------------------------------------------------------
(* The pipeline *)

\* A download the FullTextDownloader kept from an earlier run.
EarlierDownloads ==
    { [p \in PMIDs |-> NoDownload],
      [p \in PMIDs |-> IF p = "111" THEN [source |-> "arxiv", pdf_path |-> "111"]
                       ELSE NoDownload] }

\* __init__: the Dedup Index is loaded from the snapshot of an earlier run,
\* the queue is empty.
PipelineInit ==
    /\ processed_pmids \in SUBSET PMIDs
    /\ processing_queue = <<>>
    /\ search_pos = 0
    /\ ft_item = NoItem
    /\ abstract_files = {}
    /\ metadata_files = [p \in PMIDs |-> "none"]
    /\ text_files = {}
    /\ download_files \in EarlierDownloads
    /\ pdf_files = {p \in PMIDs : download_files[p].pdf_path # ""}
    /\ chunk_files = {}
    /\ searchable_files = {}
    /\ last_stage = [p \in PMIDs |-> "none"]
    /\ fulltext_failed = {}
    /\ write_failures = 0
    /\ ev = Event("init", NoItem, {}, TRUE)

\* The chunker before any call.
ChunkIdle ==
    /\ text = <<>>
    /\ chunk_size = DefaultChunkSize
    /\ overlap = DefaultOverlap
    /\ chunks = <<>>
    /\ chunk_pc = "ready"

\* GitManager.__init__, before any call.
GitInit ==
    /\ git_manager = GitManagerInit
    /\ now = 0
    /\ rec_stage = "metadata"
    /\ rec_count = 0
    /\ since_commit = 0
    /\ git_ev = NoGitEvent

\* The schedulers as __init__ leaves them: nothing generated yet.
SchedInit ==
    /\ last_rss_generation = None
    /\ last_status_update = None
    /\ rss_wake = 0
    /\ status_wake = 0
    /\ sched_ev = [op |-> "init", should |-> FALSE, output |-> 0, steps |-> <<>>]

\* The StorageManager before any call, with empty directories and no S3.
NoFile == [exists |-> FALSE, content |-> <<>>]

NoDocument ==
    [exists |-> FALSE, content |-> [pmid |-> "", source |-> "", text_length |-> 0]]

\* A file or an object that exists, with its content.
File(content) == [exists |-> TRUE, content |-> content]

\* What get_article_fulltext returns; None is NoRecord.
NoRecord == [found |-> FALSE, full_text |-> <<>>, full_text_source |-> ""]

\* The argument fulltext_data, by the two keys the store keeps.
NoData == [full_text |-> <<>>, full_text_source |-> ""]

StoreEvent(op, pmid, data, ret, record) ==
    [op |-> op, pmid |-> pmid, data |-> data, ret |-> ret, record |-> record]

StoreIdle ==
    /\ texts_dir = [p \in PMIDs |-> NoFile]
    /\ metadata_dir = [p \in PMIDs |-> NoDocument]
    /\ s3_texts = [p \in PMIDs |-> NoFile]
    /\ s3_metadata = [p \in PMIDs |-> NoDocument]
    /\ s3_available = FALSE
    /\ linesep = <<"LF">>
    /\ store_calls = 0
    /\ store_ev = StoreEvent("init", "", NoData, FALSE, NoRecord)

NoIndexFile ==
    [exists |-> FALSE, readable |-> FALSE, pmids |-> <<>>, total_processed |-> 0]

\* A file json.load or data.get fails on.
UnreadableIndexFile ==
    [exists |-> TRUE, readable |-> FALSE, pmids |-> <<>>, total_processed |-> 0]

\* The document _save_processed_index dumps for the list `pmids`.
IndexSnapshot(pmids) ==
    [exists |-> TRUE, readable |-> TRUE, pmids |-> pmids,
     total_processed |-> Len(pmids)]

\* list(a_set): its elements, each once, in some order.
ListsOf(S) ==
    {l \in [1..Cardinality(S) -> S] : \A x \in S : \E i \in 1..Cardinality(S) : l[i] = x}

_load_processed_index_ignoring_file(file) == {}

\* set(data.get('pmids', [])) when the file exists and parses, else set().
_load_processed_index(file) ==
    IF file.exists /\ file.readable
    THEN {file.pmids[i] : i \in 1..Len(file.pmids)}
    ELSE {}

\* index/processed_pmids.json as _load_processed_index found it: the Dedup
\* Index is what the file holds, and is empty without a file.
IndexInit ==
    /\ index_file = IF processed_pmids = {} THEN NoIndexFile
                    ELSE IndexSnapshot(CHOOSE l \in ListsOf(processed_pmids) : TRUE)
    /\ failed_terms = {}

\* The seven tasks start() creates, by the name of their coroutine.
Workers == {"search", "metadata", "fulltext", "ocr", "index", "rss", "status"}

\* The keys of the configuration _search_worker reads at the top of a cycle.
RequiredKeys == {"search_terms", "search_parameters"}

\* __init__ with the configuration it is given: not running, no task created.
NewProcessor(keys) ==
    /\ running = FALSE
    /\ start_pc = "idle"
    /\ worker_pc = [w \in Workers |-> "idle"]
    /\ term_idx = 0
    /\ config_keys = keys

LifeInit == NewProcessor(RequiredKeys)

\* The downloader before any call.
DownloadIdle ==
    /\ dl_article = NoArticle
    /\ dl_existing = NoDownload
    /\ dl_outcomes = [a \in {} |-> "none"]
    /\ dl_tried = <<>>
    /\ dl_result = NoArticle
    /\ dl_pc = "ready"

\* The identifiers a search can have, and the absence of a results file.
SearchIds == {"search_1", "search_2"}

NoResults == -1

Response(method, search_id, status, detail) ==
    [method |-> method, search_id |-> search_id, status |-> status,
     detail |-> detail]

\* The API before any request: no search has stored results.
ApiIdle ==
    /\ search_files = [i \in SearchIds |-> NoResults]
    /\ api_ev = Response("none", "", 0, "")

\* No call of start() has created tasks.
RestartIdle ==
    /\ tasks = [g \in 1..MaxStarts |-> [w \in Workers |-> "none"]]
    /\ start_calls = [g \in 1..MaxStarts |-> "none"]
    /\ last_call = "none"

MoreIdle == DownloadIdle /\ ApiIdle /\ RestartIdle

ExtIdle == StoreIdle /\ IndexInit /\ LifeInit /\ MoreIdle

Init == PipelineInit /\ ChunkIdle /\ GitInit /\ SchedInit /\ ExtIdle

Next ==
    \/ _search_worker /\ UNCHANGED <<chunk_vars, git_vars, sched_vars, ext_vars>>
    \/ _processing_worker /\ UNCHANGED <<chunk_vars, git_vars, sched_vars, ext_vars>>
    \/ _fulltext_worker_get /\ UNCHANGED <<chunk_vars, git_vars, sched_vars, ext_vars>>
    \/ _fulltext_worker_download /\ UNCHANGED <<chunk_vars, git_vars, sched_vars, ext_vars>>
    \/ _ocr_worker /\ UNCHANGED <<chunk_vars, git_vars, sched_vars, ext_vars>>

Spec == Init /\ [][Next]_vars

\* The pipeline frame: the variables of the other specifications.
PipelineFrame == UNCHANGED <<chunk_vars, git_vars, sched_vars, ext_vars>>

\* The event loop runs every worker task again and again: a worker whose
\* next step is possible takes it.  Nothing is assumed about the searches.
FairSpec ==
    /\ Init
    /\ [][Next]_vars
    /\ WF_vars(_processing_worker /\ PipelineFrame)
    /\ WF_vars(_fulltext_worker_get /\ PipelineFrame)
    /\ WF_vars(_fulltext_worker_download /\ PipelineFrame)
    /\ WF_vars(_ocr_worker /\ PipelineFrame)

----------------------------------------------------------------------------
(* _create_rag_chunks *)

Min(a, b) == IF a < b THEN a ELSE b

\* The sum of words[lo..hi] (1-based, inclusive), by halving.
RECURSIVE SumLens(_, _, _)
SumLens(words, lo, hi) ==
    IF lo > hi THEN 0
    ELSE IF lo = hi THEN words[lo]
    ELSE LET mid == (lo + hi) \div 2
         IN  SumLens(words, lo, mid) + SumLens(words, mid + 1, hi)

\* len(' '.join(words[i:end]).strip()) for the 0-based slice [i, end): the
\* words of split() hold no white space, so the joined text has none at its
\* ends and strip() removes nothing.
JoinedLen(words, i, end) ==
    IF end <= i THEN 0 ELSE SumLens(words, i + 1, end) + (end - i - 1)

\* range(0, len(words), step) raises ValueError when step is 0
RangeRaises(step) == step = 0

chunk_id_of_window(pmid, acc, i, step) == <<pmid, i \div step>>

\* f"{pmid}_{len(chunks)}" for the chunk of the window that starts at word
\* i, as the pair of its two parts.
chunk_id(pmid, acc, i, step) == <<pmid, Len(acc)>>

\* The loop body for the window that starts at word i (0-based), then the
\* rest of the loop; acc is the list chunks.
RECURSIVE ChunksFrom(_, _, _, _, _, _)
ChunksFrom(words, pmid, size, step, i, acc) ==
    IF step <= 0 \/ i >= Len(words) THEN acc
    ELSE LET end == Min(i + size, Len(words))
             chunk == [pmid |-> pmid,
                       chunk_id |-> chunk_id(pmid, acc, i, step),
                       text_len |-> JoinedLen(words, i, end),
                       start_word |-> i,
                       end_word |-> end,
                       word_count |-> end - i]
         IN  ChunksFrom(words, pmid, size, step, i + step,
                        IF chunk.text_len > MinChunkChars THEN Append(acc, chunk) ELSE acc)

\* Mutant: the windows advance by chunk_size, without overlap.
_create_rag_chunks_no_overlap(words, pmid, size, ovl) ==
    ChunksFrom(words, pmid, size, size, 0, <<>>)

_create_rag_chunks(words, pmid, size, ovl) ==
    ChunksFrom(words, pmid, size, size - ovl, 0, <<>>)

----------------------------------------------------------------------------
(* ChunkSpec: _create_rag_chunks on bounded texts *)

MaxSmallWords == 26   \* words of a short text
MaxWordLen == 2       \* characters of the words of a uniform text
MaxWindows == 3       \* strides a long text spans
MaxMixedWords == 5    \* words of a text of short and long words

ChunkPmid == "111"

Uniform(n, len) == [i \in 1..n |-> len]

\* Words beyond the last whole stride of a long text.
TailWords == {0, 1, 17, 18, 200, 201}

ShortTexts == {Uniform(n, len) : n \in 0..MaxSmallWords, len \in 1..MaxWordLen}

LongTexts ==
    {Uniform(k * (DefaultChunkSize - DefaultOverlap) + d, len) :
        k \in 1..MaxWindows, d \in TailWords, len \in 1..MaxWordLen}

MixedTexts == SeqsUpTo({1, 24}, MaxMixedWords)

\* <<chunk_size, overlap>>: the defaults; a small window; overlap = chunk_size;
\* overlap > chunk_size
SmallParams == {<<3, 1>>, <<3, 2>>, <<2, 2>>, <<1, 2>>}

ChunkInit ==
    /\ PipelineInit
    /\ processed_pmids = {}
    /\ download_files = [p \in PMIDs |-> NoDownload]
    /\ \/ /\ text \in ShortTexts \cup LongTexts \cup MixedTexts
          /\ chunk_size = DefaultChunkSize
          /\ overlap = DefaultOverlap
       \/ /\ text \in MixedTexts
          /\ \E params \in SmallParams : chunk_size = params[1] /\ overlap = params[2]
    /\ chunks = <<>>
    /\ chunk_pc = "ready"
    /\ GitInit
    /\ SchedInit
    /\ ExtIdle

call_create_rag_chunks ==
    /\ chunk_pc = "ready"
    /\ IF RangeRaises(chunk_size - overlap)
       THEN /\ chunk_pc' = "raised"
            /\ chunks' = chunks
       ELSE /\ chunk_pc' = "done"
            /\ chunks' = _create_rag_chunks(text, ChunkPmid, chunk_size, overlap)
    /\ UNCHANGED <<text, chunk_size, overlap>>

ChunkNext == call_create_rag_chunks /\ UNCHANGED <<pipeline_vars, git_vars, sched_vars, ext_vars>>

ChunkSpec == ChunkInit /\ [][ChunkNext]_vars

----------------------------------------------------------------------------
(* GitSpec: the GitManager under its callers *)

MaxItems == 10     \* items the caller records in a run
MaxCommits == 2    \* commits in a run
MaxHours == 2      \* hours a run lasts

\* The pipeline at rest.
PipelineIdle ==
    /\ PipelineInit
    /\ processed_pmids = {}
    /\ download_files = [p \in PMIDs |-> NoDownload]

GitSpecInit ==
    /\ PipelineIdle
    /\ ChunkIdle
    /\ SchedInit
    /\ ExtIdle
    /\ git_manager = GitManagerInit
    /\ now = 0
    /\ rec_stage \in CadenceStages
    /\ rec_count = 0
    /\ since_commit = 0
    /\ git_ev = NoGitEvent

\* A caller records the next item of its stage: the call
\* commit_and_push_if_needed(stage, count) with the cumulative count.
record_item ==
    /\ rec_count < MaxItems
    /\ git_manager.commit_count < MaxCommits
    /\ \E outcome \in GitOutcomes :
         LET count == rec_count + 1
             r == commit_and_push_if_needed(git_manager, rec_stage, count, FALSE,
                                            outcome[1], outcome[2], now)
         IN  /\ git_manager' = r.git_manager
             /\ rec_count' = count
             /\ since_commit' = IF r.committed THEN 0 ELSE since_commit + 1
             /\ git_ev' = GitEvent("record_item", rec_stage, count, FALSE, outcome, r)
    /\ UNCHANGED <<now, rec_stage>>

\* Any other call of commit_and_push_if_needed: a stage without a cadence
\* with count 1, with or without force, or the caller's own stage and count
\* with force.
CheckpointCalls ==
    {<<stage, 1, force_push>> :
        stage \in AlwaysStages \cup OtherStages, force_push \in BOOLEAN}
    \cup {<<rec_stage, rec_count, TRUE>>}

checkpoint ==
    /\ git_manager.commit_count < MaxCommits
    /\ \E call \in CheckpointCalls, outcome \in GitOutcomes :
         LET r == commit_and_push_if_needed(git_manager, call[1], call[2], call[3],
                                            outcome[1], outcome[2], now)
         IN  /\ git_manager' = r.git_manager
             /\ since_commit' = IF r.committed THEN 0 ELSE since_commit
             /\ git_ev' = GitEvent("checkpoint", call[1], call[2], call[3], outcome, r)
    /\ UNCHANGED <<now, rec_stage, rec_count>>

\* RSSGenerator._commit_rss_feeds: force_commit_and_push on the same GitManager.
_commit_rss_feeds ==
    /\ \E outcome \in GitOutcomes :
         LET r == force_commit_and_push(git_manager, outcome[1], outcome[2], now)
         IN  /\ git_manager' = r.git_manager
             /\ since_commit' = IF r.committed THEN 0 ELSE since_commit
             /\ git_ev' = GitEvent("force_commit_and_push", "", 0, TRUE, outcome, r)
    /\ UNCHANGED <<now, rec_stage, rec_count>>

\* Time passes between two calls.
git_clock ==
    /\ now < MaxHours * HourlyPushSeconds
    /\ now' = now + HourlyPushSeconds
    /\ git_ev' = [NoGitEvent EXCEPT !.op = "clock"]
    /\ UNCHANGED <<git_manager, rec_stage, rec_count, since_commit>>

GitNext ==
    \/ record_item /\ UNCHANGED <<pipeline_vars, chunk_vars, sched_vars, ext_vars>>
    \/ checkpoint /\ UNCHANGED <<pipeline_vars, chunk_vars, sched_vars, ext_vars>>
    \/ _commit_rss_feeds /\ UNCHANGED <<pipeline_vars, chunk_vars, sched_vars, ext_vars>>
    \/ git_clock /\ UNCHANGED <<pipeline_vars, chunk_vars, sched_vars, ext_vars>>

GitSpec == GitSpecInit /\ [][GitNext]_vars

----------------------------------------------------------------------------
(* SchedSpec: the feed and status schedulers *)

RssPeriod == 21600         \* seconds, _should_generate_rss
StatusPeriod == 1800       \* seconds, _should_update_status
RssCheckSleep == 3600      \* seconds _rss_worker sleeps between two checks
StatusCheckSleep == 1800   \* seconds _status_worker sleeps between two checks

MaxHalfHours == 13   \* half hours a run lasts
MaxFeeds == 2        \* feeds one generate_rss_feeds call returns

_should_generate_rss(last, t) ==
    IF last = None THEN TRUE ELSE t - last > RssPeriod

_should_update_status(last, t) ==
    IF last = None THEN TRUE ELSE t - last > StatusPeriod

\* One thing a scheduler iteration did.
Step(call, force_push, ret) == [call |-> call, force_push |-> force_push, ret |-> ret]

\* generate_rss_feeds(commit_to_git=True) returning `feeds` feeds: the feeds
\* are written, then _commit_rss_feeds runs when there is at least one.
generate_rss_feeds(g, feeds, outcome, t) ==
    IF feeds > 0
    THEN LET r == force_commit_and_push(g, outcome[1], outcome[2], t)
         IN  [git_manager |-> r.git_manager,
              steps |-> <<Step("write_feeds", FALSE, TRUE),
                          Step("force_commit_and_push", TRUE, r.ret)>>]
    ELSE [git_manager |-> g, steps |-> <<>>]

rss_checkpoint_unforced(g, feeds, outcome, t) ==
    [r |-> commit_and_push_if_needed(g, "rss_update", feeds, FALSE,
                                     outcome[1], outcome[2], t),
     step |-> Step("commit_and_push_if_needed", FALSE,
                   commit_and_push_if_needed(g, "rss_update", feeds, FALSE,
                                             outcome[1], outcome[2], t).ret)]

\* The call of _rss_worker after a generation that returned feeds.
rss_checkpoint(g, feeds, outcome, t) ==
    [r |-> commit_and_push_if_needed(g, "rss_update", feeds, TRUE,
                                     outcome[1], outcome[2], t),
     step |-> Step("commit_and_push_if_needed", TRUE,
                   commit_and_push_if_needed(g, "rss_update", feeds, TRUE,
                                             outcome[1], outcome[2], t).ret)]

\* The call of _status_worker after a generation that returned a path.
status_checkpoint(g, outcome, t) ==
    [r |-> commit_and_push_if_needed(g, "status_update", 1, TRUE,
                                     outcome[1], outcome[2], t),
     step |-> Step("commit_and_push_if_needed", TRUE,
                   commit_and_push_if_needed(g, "status_update", 1, TRUE,
                                             outcome[1], outcome[2], t).ret)]

rss_generation_time_on_empty(last, should_generate, feeds, t) ==
    IF should_generate THEN t ELSE last

\* last_rss_generation after one iteration of _rss_worker.
rss_generation_time(last, should_generate, feeds, t) ==
    IF should_generate /\ feeds > 0 THEN t ELSE last

\* last_status_update after one iteration of _status_worker.
status_update_time(last, should_update, status_path, t) ==
    IF should_update /\ status_path # "" THEN t ELSE last

SchedEvent(op, should, output, steps) ==
    [op |-> op, should |-> should, output |-> output, steps |-> steps]

\* One iteration of the loop of _rss_worker, from the end of a sleep to the
\* start of the next; nothing in it suspends.
_rss_worker ==
    /\ now >= rss_wake
    /\ \E feeds \in 0..MaxFeeds, o1 \in GitOutcomes, o2 \in GitOutcomes :
         LET should_generate == _should_generate_rss(last_rss_generation, now)
             gen == generate_rss_feeds(git_manager, feeds, o1, now)
             cp == rss_checkpoint(gen.git_manager, feeds, o2, now)
         IN  /\ last_rss_generation' =
                    rss_generation_time(last_rss_generation, should_generate, feeds, now)
             /\ IF should_generate /\ feeds > 0
                THEN /\ git_manager' = cp.r.git_manager
                     /\ sched_ev' = SchedEvent("rss", TRUE, feeds,
                           gen.steps \o <<Step("last_rss_generation", FALSE, TRUE), cp.step>>)
                ELSE /\ UNCHANGED git_manager
                     /\ sched_ev' = SchedEvent("rss", should_generate, 0, <<>>)
    /\ rss_wake' = now + RssCheckSleep
    /\ UNCHANGED <<last_status_update, status_wake, now, rec_stage, rec_count,
                   since_commit, git_ev>>

\* One iteration of the loop of _status_worker; status_path is the empty
\* string when generate_status_page failed.
_status_worker ==
    /\ now >= status_wake
    /\ \E status_path \in {"", "docs/articles/index.html"}, outcome \in GitOutcomes :
         LET should_update == _should_update_status(last_status_update, now)
             cp == status_checkpoint(git_manager, outcome, now)
         IN  /\ last_status_update' =
                    status_update_time(last_status_update, should_update, status_path, now)
             /\ IF should_update /\ status_path # ""
                THEN /\ git_manager' = cp.r.git_manager
                     /\ sched_ev' = SchedEvent("status", TRUE, 1,
                           <<Step("write_status_page", FALSE, TRUE),
                             Step("last_status_update", FALSE, TRUE), cp.step>>)
                ELSE /\ UNCHANGED git_manager
                     /\ sched_ev' = SchedEvent("status", should_update, 0, <<>>)
    /\ status_wake' = now + StatusCheckSleep
    /\ UNCHANGED <<last_rss_generation, rss_wake, now, rec_stage, rec_count,
                   since_commit, git_ev>>

\* Time passes while both workers sleep; a worker wakes when its sleep has
\* ended or half an hour later.
sched_clock ==
    /\ now < MaxHalfHours * StatusCheckSleep
    /\ now <= rss_wake
    /\ now <= status_wake
    /\ now' = now + StatusCheckSleep
    /\ sched_ev' = SchedEvent("clock", FALSE, 0, <<>>)
    /\ UNCHANGED <<git_manager, rec_stage, rec_count, since_commit, git_ev,
                   last_rss_generation, last_status_update, rss_wake, status_wake>>

SchedSpecInit == PipelineIdle /\ ChunkIdle /\ GitInit /\ SchedInit /\ ExtIdle

SchedNext ==
    \/ _rss_worker /\ UNCHANGED <<pipeline_vars, chunk_vars, ext_vars>>
    \/ _status_worker /\ UNCHANGED <<pipeline_vars, chunk_vars, ext_vars>>
    \/ sched_clock /\ UNCHANGED <<pipeline_vars, chunk_vars, ext_vars>>

SchedSpec == SchedSpecInit /\ [][SchedNext]_vars

----------------------------------------------------------------------------
(* StorageManager: the full-text store (StoreSpec) *)

MaxTextLen == 1      \* characters of a full text
MaxStores == 2       \* store_article_fulltext calls in a run
MaxStoredResults == 2  \* results in one search_results file

\* The characters of a full text: a letter, carriage return, line feed.
Chars == {"a", "CR", "LF"}

FullTexts == UNION {[1..n -> Chars] : n \in 0..MaxTextLen}

FullTextSources == {"pubmed_central", "arxiv"}

\* os.linesep of the platform the store runs on.
LineSeps == {<<"LF">>, <<"CR", "LF">>}

\* f.write(s) on a file opened in text mode with the default newline: each
\* line feed is written as os.linesep.
RECURSIVE write_text(_, _)
write_text(s, sep) ==
    IF s = <<>> THEN <<>>
    ELSE IF Head(s) = "LF" THEN sep \o write_text(Tail(s), sep)
    ELSE <<Head(s)>> \o write_text(Tail(s), sep)

\* The bytes of the file decoded without any translation of line ends, as
\* response['Body'].read().decode('utf-8') does for the S3 object.
read_bytes(content) == content

\* f.read() on a file opened in text mode with the default newline
\* (universal newlines): CR LF, CR and LF are each read as one line feed.
RECURSIVE read_text(_)
read_text(content) ==
    IF content = <<>> THEN <<>>
    ELSE IF Head(content) = "CR"
    THEN IF Len(content) >= 2 /\ content[2] = "LF"
         THEN <<"LF">> \o read_text(Tail(Tail(content)))
         ELSE <<"LF">> \o read_text(Tail(content))
    ELSE <<Head(content)>> \o read_text(Tail(content))

\* The document json.dump writes to metadata/<pmid>.json; json.load gives
\* back the same strings and number.
ArticleMetadata(pmid, fulltext_data) ==
    [pmid |-> pmid,
     source |-> fulltext_data.full_text_source,
     text_length |-> Len(fulltext_data.full_text)]

FullTextRecord(full_text, metadata) ==
    [found |-> TRUE, full_text |-> full_text, full_text_source |-> metadata.source]

\* _download_article_from_s3: None without the metadata object, and None
\* (the exception of get_object is caught) without the text object.
_download_article_from_s3(pmid, s3_ok) ==
    IF ~s3_ok \/ ~s3_metadata[pmid].exists \/ ~s3_texts[pmid].exists
    THEN NoRecord
    ELSE FullTextRecord(read_bytes(s3_texts[pmid].content), s3_metadata[pmid].content)

\* Where store_article_fulltext can raise: opening the text file, opening
\* the metadata file, copying the PDF; "none" when it returns True.
StoreFaults == {"none", "text", "metadata", "pdf"}

\* The two uploads of _upload_article_to_s3; each can fail on its own.
Uploads == SUBSET {"text", "metadata"}

store_article_fulltext ==
    /\ store_calls < MaxStores
    /\ \E pmid \in PMIDs, full_text \in FullTexts, source \in FullTextSources,
          fault \in StoreFaults, uploaded \in Uploads :
         LET data == [full_text |-> full_text, full_text_source |-> source]
             content == write_text(full_text, linesep)
             metadata == ArticleMetadata(pmid, data)
             to_s3 == IF fault = "none" /\ s3_available THEN uploaded ELSE {}
         IN  /\ ~s3_available => uploaded = {}
             /\ fault # "none" => uploaded = {}
             /\ texts_dir' = IF fault = "text" THEN texts_dir
                             ELSE [texts_dir EXCEPT ![pmid] = File(content)]
             /\ metadata_dir' = IF fault \in {"text", "metadata"} THEN metadata_dir
                                ELSE [metadata_dir EXCEPT ![pmid] = File(metadata)]
             /\ s3_texts' = IF "text" \in to_s3
                            THEN [s3_texts EXCEPT ![pmid] = File(content)] ELSE s3_texts
             /\ s3_metadata' = IF "metadata" \in to_s3
                               THEN [s3_metadata EXCEPT ![pmid] = File(metadata)]
                               ELSE s3_metadata
             /\ store_ev' = StoreEvent("store", pmid, data, fault = "none", NoRecord)
    /\ store_calls' = store_calls + 1
    /\ UNCHANGED <<s3_available, linesep>>

\* Local files first, then S3 when it is available; s3_ok is whether the
\* S3 requests go through.
get_article_fulltext ==
    /\ \E pmid \in PMIDs, s3_ok \in BOOLEAN :
         LET record ==
                IF texts_dir[pmid].exists /\ metadata_dir[pmid].exists
                THEN FullTextRecord(read_text(texts_dir[pmid].content),
                                    metadata_dir[pmid].content)
                ELSE IF s3_available
                THEN _download_article_from_s3(pmid, s3_ok)
                ELSE NoRecord
         IN  store_ev' = StoreEvent("get", pmid, NoData, record.found, record)
    /\ UNCHANGED <<texts_dir, metadata_dir, s3_texts, s3_metadata, s3_available,
                   linesep, store_calls>>

\* __init__: empty directories and an empty bucket; boto3.client either
\* succeeded or not.
StoreSpecInit ==
    /\ PipelineIdle /\ ChunkIdle /\ GitInit /\ SchedInit /\ IndexInit /\ LifeInit
    /\ MoreIdle
    /\ texts_dir = [p \in PMIDs |-> NoFile]
    /\ metadata_dir = [p \in PMIDs |-> NoDocument]
    /\ s3_texts = [p \in PMIDs |-> NoFile]
    /\ s3_metadata = [p \in PMIDs |-> NoDocument]
    /\ s3_available \in BOOLEAN
    /\ linesep \in LineSeps
    /\ store_calls = 0
    /\ store_ev = StoreEvent("init", "", NoData, FALSE, NoRecord)

StoreNext ==
    \/ store_article_fulltext
        /\ UNCHANGED <<pipeline_vars, chunk_vars, git_vars, sched_vars, index_vars, life_vars, more_vars>>
    \/ get_article_fulltext
        /\ UNCHANGED <<pipeline_vars, chunk_vars, git_vars, sched_vars, index_vars, life_vars, more_vars>>

StoreSpec == StoreSpecInit /\ [][StoreNext]_vars

----------------------------------------------------------------------------
(* download_full_text on every run of its adapters (DownloadSpec) *)

AdapterNames == {Adapters[k] : k \in 1..Len(Adapters)}

\* An article of the fulltext stage, an earlier download of it or none, and
\* what each adapter does when it is called.
DownloadSpecInit ==
    /\ PipelineIdle /\ ChunkIdle /\ GitInit /\ SchedInit
    /\ StoreIdle /\ IndexInit /\ LifeInit /\ ApiIdle /\ RestartIdle
    /\ dl_article \in {RawArticle(p, RelevanceThreshold) : p \in PMIDs}
    /\ dl_existing \in {NoDownload, [source |-> "arxiv", pdf_path |-> "111"]}
    /\ dl_outcomes \in [AdapterNames -> AdapterOutcomes]
    /\ dl_tried = <<>>
    /\ dl_result = NoArticle
    /\ dl_pc = "ready"

call_download_full_text ==
    /\ dl_pc = "ready"
    /\ dl_tried' = sources_tried(dl_existing, dl_outcomes)
    /\ dl_result' = download_full_text(dl_article, dl_existing, dl_outcomes)
    /\ dl_pc' = "done"
    /\ UNCHANGED <<dl_article, dl_existing, dl_outcomes>>

DownloadNext ==
    call_download_full_text
        /\ UNCHANGED <<pipeline_vars, chunk_vars, git_vars, sched_vars,
                       store_vars, index_vars, life_vars, api_vars,
                       restart_vars>>

DownloadSpec == DownloadSpecInit /\ [][DownloadNext]_vars

(***************************************************************************)
(* ApiSpec: the endpoints GET and DELETE /results/{search_id} of app.py    *)
(* over the search_results directory of the StorageManager.  A results     *)
(* file is represented by the number of results it holds.  S3 is not       *)
(* configured.  A request is one action; its response is the status and    *)
(* the detail or message FastAPI sends.                                    *)
(***************************************************************************)
NotFoundDetail == "Search results not found"

\* str() of the HTTPException the handler raised itself.
StrOfNotFound == "404: Search results not found"

\* StorageManager.store_results: writes the file unless the write raises.
store_results(files, search_id, n, fault) ==
    IF fault THEN files ELSE [files EXCEPT ![search_id] = n]

\* StorageManager.get_results: the list of the file, or None; None also
\* when reading raises.  The value is the number of results, None is
\* NoResults.
storage_get_results(files, search_id, fault) ==
    IF fault THEN NoResults ELSE files[search_id]

\* StorageManager.delete_results: what it returns.  True whether or not a
\* file existed; False only when os.remove raises.
storage_delete_results_ok(files, search_id, fault) ==
    ~(files[search_id] # NoResults /\ fault)

\* ... and the directory it leaves.
storage_delete_results(files, search_id, fault) ==
    IF files[search_id] # NoResults /\ ~fault
    THEN [files EXCEPT ![search_id] = NoResults]
    ELSE files

\* The except clause of both handlers: 'except Exception' catches the
\* HTTPException raised in the try block and answers 500 with its str().
except_Exception(method, search_id) ==
    Response(method, search_id, 500, StrOfNotFound)

\* GET /results/{search_id}
get_results ==
    \E search_id \in SearchIds, fault \in BOOLEAN :
        LET results == storage_get_results(search_files, search_id, fault)
        IN /\ api_ev' = IF results = NoResults \/ results = 0
                        THEN except_Exception("GET", search_id)
                        ELSE Response("GET", search_id, 200, "results")
           /\ UNCHANGED search_files

\* DELETE /results/{search_id}
delete_results ==
    \E search_id \in SearchIds, fault \in BOOLEAN :
        /\ search_files' = storage_delete_results(search_files, search_id, fault)
        /\ api_ev' = IF ~storage_delete_results_ok(search_files, search_id, fault)
                     THEN except_Exception("DELETE", search_id)
                     ELSE Response("DELETE", search_id, 200, "deleted successfully")

\* perform_search: the background task of POST /search stores what it found.
perform_search ==
    \E search_id \in SearchIds, n \in 0..MaxStoredResults, fault \in BOOLEAN :
        /\ search_files' = store_results(search_files, search_id, n, fault)
        /\ api_ev' = Response("POST", search_id, 200, "started")

ApiFrame == UNCHANGED <<pipeline_vars, chunk_vars, git_vars, sched_vars,
                        store_vars, index_vars, life_vars, download_vars,
                        restart_vars>>

ApiSpecInit ==
    /\ PipelineIdle /\ ChunkIdle /\ GitInit /\ SchedInit
    /\ StoreIdle /\ IndexInit /\ LifeInit /\ DownloadIdle
    /\ ApiIdle /\ RestartIdle

ApiNext ==
    \/ get_results /\ ApiFrame
    \/ delete_results /\ ApiFrame
    \/ perform_search /\ ApiFrame

ApiSpec == ApiSpecInit /\ [][ApiNext]_vars

----------------------------------------------------------------------------
(* Failing search terms and the index persister (IndexSpec) *)

after_term_error_aborting_cycle(pos) ==
    ((pos \div Len(SearchTerms)) + 1) * Len(SearchTerms)

\* `continue` in the except branch of the term: the loop goes on with the
\* term that follows in the two nested loops.
after_term_error(pos) == pos + 1

\* One term whose handling raises after `handled` of the articles were
\* looked at: the items put before the exception stay in the queue.
_search_worker_term_error ==
    /\ search_pos < MaxSearches
    /\ \E articles \in SeqsUpTo(SearchArticles, MaxResults) :
       \E handled \in 0..Len(articles) :
        LET cur == SearchTerms[(search_pos % Len(SearchTerms)) + 1]
            seen == SubSeq(articles, 1, handled)
            new == NewWorkItems(seen, processed_pmids, cur.category, cur.term)
        IN  /\ Len(processing_queue) + Len(new) <= MaxQueue
            /\ processing_queue' = processing_queue \o new
            /\ last_stage' = LogEmitted(last_stage, new)
            /\ ev' = Event("search_error", NoItem, Pmids(seen), TRUE)
    /\ failed_terms' = failed_terms \cup {search_pos}
    /\ search_pos' = after_term_error(search_pos)
    /\ UNCHANGED <<processed_pmids, ft_item, abstract_files, metadata_files,
                   text_files, pdf_files, download_files, chunk_files,
                   searchable_files, fulltext_failed, write_failures, index_file>>

\* _save_processed_index writes the pmids of the Dedup Index, or logs the
\* exception and leaves the file as it was.
_save_processed_index_keeping_file(saved, pmids) == index_file

_save_processed_index(saved, pmids) ==
    IF saved THEN IndexSnapshot(pmids) ELSE index_file

\* One iteration of _index_worker after its sleep; _update_search_index
\* only logs.
_index_worker ==
    /\ \E saved \in BOOLEAN, pmids \in ListsOf(processed_pmids) :
        /\ index_file' = _save_processed_index(saved, pmids)
        /\ ev' = Event("index", NoItem, {}, saved)
    /\ UNCHANGED <<processed_pmids, processing_queue, search_pos, ft_item,
                   abstract_files, metadata_files, text_files, pdf_files,
                   download_files, chunk_files, searchable_files, last_stage,
                   fulltext_failed, write_failures, failed_terms>>

IndexNext ==
    \/ _search_worker
        /\ UNCHANGED <<chunk_vars, git_vars, sched_vars, store_vars, index_vars, life_vars, more_vars>>
    \/ _search_worker_term_error
        /\ UNCHANGED <<chunk_vars, git_vars, sched_vars, store_vars, life_vars, more_vars>>
    \/ _processing_worker
        /\ UNCHANGED <<chunk_vars, git_vars, sched_vars, store_vars, index_vars, life_vars, more_vars>>
    \/ _fulltext_worker_get
        /\ UNCHANGED <<chunk_vars, git_vars, sched_vars, store_vars, index_vars, life_vars, more_vars>>
    \/ _fulltext_worker_download
        /\ UNCHANGED <<chunk_vars, git_vars, sched_vars, store_vars, index_vars, life_vars, more_vars>>
    \/ _ocr_worker
        /\ UNCHANGED <<chunk_vars, git_vars, sched_vars, store_vars, index_vars, life_vars, more_vars>>
    \/ _index_worker
        /\ UNCHANGED <<chunk_vars, git_vars, sched_vars, store_vars, life_vars, more_vars>>

\* The files a processor can find at startup: none, one that does not
\* parse, or a snapshot an earlier processor saved.
StartIndexFiles ==
    {NoIndexFile, UnreadableIndexFile}
        \cup UNION {{IndexSnapshot(l) : l \in ListsOf(S)} : S \in SUBSET PMIDs}

\* __init__ with the Dedup Index loaded from whatever file is there.
IndexSpecInit ==
    /\ PipelineInit /\ ChunkIdle /\ GitInit /\ SchedInit /\ StoreIdle /\ LifeInit
    /\ MoreIdle
    /\ index_file \in StartIndexFiles
    /\ processed_pmids = _load_processed_index(index_file)
    /\ failed_terms = {}

IndexSpec == IndexSpecInit /\ [][IndexNext]_vars

----------------------------------------------------------------------------
(* start, stop and the worker loops (LifeSpec) *)

(***************************************************************************)
(* Each worker is followed through the points at which its coroutine waits *)
(* or evaluates `while self.running`:                                      *)
(*   "loop"        about to evaluate the condition of its while loop       *)
(*   "term"        _search_worker awaits the search of term term_idx and   *)
(*                 the rate-limiting sleep that follows it                 *)
(*   "cycle_sleep" _search_worker sleeps between two search cycles         *)
(*   "get"         a queue worker awaits wait_for(queue.get(), 1.0)        *)
(*   "item"        a queue worker awaits the handling of the item it took  *)
(*   "sleep"       _index_worker, _rss_worker or _status_worker sleeps     *)
(*   "error_sleep" the sleep in the handler `except Exception`             *)
(*   "exited"      the while loop has ended and the coroutine returned     *)
(* What the queue holds and what a call returns is left to the             *)
(* environment: a get yields an item or times out, a call returns or       *)
(* raises an Exception.  start() is called once and stop() at any time.    *)
(***************************************************************************)

QueueWorkers == {"metadata", "fulltext", "ocr"}

NumTerms == Len(SearchTerms)

while_running_forever(r, entered) == entered

\* `while self.running:` evaluated with self.running = r: the loop body is
\* entered, up to its first wait, or the loop ends.
while_running(r, entered) == IF r THEN entered ELSE "exited"

on_exception_terminating == "exited"

\* `except Exception as e:` of a worker loop: log, then sleep.
on_exception == "error_sleep"

\* start(): sets the flag and creates the seven tasks, then awaits gather.
start ==
    /\ start_pc = "idle"
    /\ ~running
    /\ running' = TRUE
    /\ worker_pc' = [w \in Workers |-> "loop"]
    /\ start_pc' = "gather"
    /\ UNCHANGED <<term_idx, config_keys>>

\* stop(): clears the flag.
stop ==
    /\ running
    /\ running' = FALSE
    /\ UNCHANGED <<start_pc, worker_pc, term_idx, config_keys>>

\* gather returns when every task has returned; `finally` clears the flag.
start_return ==
    /\ start_pc = "gather"
    /\ \A w \in Workers : worker_pc[w] = "exited"
    /\ running' = FALSE
    /\ start_pc' = "returned"
    /\ UNCHANGED <<worker_pc, term_idx, config_keys>>

\* self.config["search_terms"], self.config["search_parameters"][...]:
\* whether the lookups raise KeyError.
KeyError(keys) == ~(RequiredKeys \subseteq keys)

\* The condition of the while loop and, when it holds, the body up to its
\* first wait.  _search_worker reads its configuration (a missing key goes
\* to the handler) and starts the first term; a queue worker awaits the
\* queue; _index_worker sleeps; _rss_worker and _status_worker check their
\* gate, generate and checkpoint, then sleep.
loop_head(w) ==
    /\ worker_pc[w] = "loop"
    /\ \E raised \in BOOLEAN :
         LET entered ==
                IF w = "search" THEN (IF raised THEN on_exception ELSE "term")
                ELSE IF w \in QueueWorkers THEN "get"
                ELSE IF w = "index" THEN "sleep"
                ELSE (IF raised THEN on_exception ELSE "sleep")
         IN  /\ raised => (running /\ w \in {"search", "rss", "status"})
             /\ (running /\ w = "search") => (raised = KeyError(config_keys))
             /\ worker_pc' = [worker_pc EXCEPT ![w] = while_running(running, entered)]
             /\ term_idx' = IF w = "search" /\ worker_pc'[w] = "term" THEN 1 ELSE term_idx
    /\ UNCHANGED <<running, start_pc, config_keys>>

\* The search of a term has returned or raised, and the rate-limiting
\* sleep is over: either way the for loops go on, to the next term while
\* self.running holds and terms are left, else to the sleep between cycles.
search_term ==
    /\ worker_pc["search"] = "term"
    /\ IF running /\ term_idx < NumTerms
       THEN /\ term_idx' = term_idx + 1
            /\ UNCHANGED worker_pc
       ELSE /\ term_idx' = 0
            /\ worker_pc' = [worker_pc EXCEPT !["search"] = "cycle_sleep"]
    /\ UNCHANGED <<running, start_pc, config_keys>>

\* wait_for(queue.get(), 1.0) returns: a timeout or an item dealt with at
\* once (skipped, put back) continues the loop, an item to handle is
\* taken, and an exception goes to the handler.
GetOutcomes == {"timeout", "handled", "taken", "raised"}

queue_get(w) ==
    /\ w \in QueueWorkers
    /\ worker_pc[w] = "get"
    /\ \E outcome \in GetOutcomes :
         worker_pc' = [worker_pc EXCEPT ![w] =
                          IF outcome = "taken" THEN "item"
                          ELSE IF outcome = "raised" THEN on_exception
                          ELSE "loop"]
    /\ UNCHANGED <<running, start_pc, term_idx, config_keys>>

\* The handling of the item taken ends, normally or with an exception.
item_done(w) ==
    /\ w \in QueueWorkers
    /\ worker_pc[w] = "item"
    /\ \E raised \in BOOLEAN :
         worker_pc' = [worker_pc EXCEPT ![w] = IF raised THEN on_exception ELSE "loop"]
    /\ UNCHANGED <<running, start_pc, term_idx, config_keys>>

\* A sleep ends.  After its sleep _index_worker saves the index and
\* updates the search index, which can go to the handler.
wake(w) ==
    /\ worker_pc[w] \in {"sleep", "cycle_sleep", "error_sleep"}
    /\ \E raised \in BOOLEAN :
         /\ raised => (w = "index" /\ worker_pc[w] = "sleep")
         /\ worker_pc' = [worker_pc EXCEPT ![w] = IF raised THEN on_exception ELSE "loop"]
    /\ UNCHANGED <<running, start_pc, term_idx, config_keys>>

\* Any step of worker w.
worker_step(w) ==
    \/ loop_head(w)
    \/ (w = "search" /\ search_term)
    \/ queue_get(w)
    \/ item_done(w)
    \/ wake(w)

LifeFrame == UNCHANGED <<pipeline_vars, chunk_vars, git_vars, sched_vars,
                         store_vars, index_vars, more_vars>>

\* The configurations a processor is constructed with: the complete one and
\* those that lack required keys.
Configs == SUBSET RequiredKeys

LifeSpecInit ==
    /\ PipelineIdle /\ ChunkIdle /\ GitInit /\ SchedInit
    /\ StoreIdle /\ IndexInit /\ MoreIdle
    /\ \E keys \in Configs : NewProcessor(keys)

LifeNext ==
    \/ start /\ LifeFrame
    \/ stop /\ LifeFrame
    \/ start_return /\ LifeFrame
    \/ (\E w \in Workers : loop_head(w)) /\ LifeFrame
    \/ search_term /\ LifeFrame
    \/ (\E w \in Workers : queue_get(w)) /\ LifeFrame
    \/ (\E w \in Workers : item_done(w)) /\ LifeFrame
    \/ (\E w \in Workers : wake(w)) /\ LifeFrame

LifeSpec == LifeSpecInit /\ [][LifeNext]_vars

\* The event loop runs every task that can run, every timed wait elapses
\* and every awaited call returns or raises; gather returns once all tasks
\* have.  Nothing is assumed about start and stop.
FairLifeSpec ==
    /\ LifeSpecInit
    /\ [][LifeNext]_vars
    /\ \A w \in Workers : WF_vars(worker_step(w) /\ LifeFrame)
    /\ WF_vars(start_return /\ LifeFrame)


----------------------------------------------------------------------------
(* start() and stop() called again (RestartSpec) *)

(***************************************************************************)
(* start() and stop() are public coroutines of the processor and are       *)
(* called in any order.  Every call of start() that passes its guard       *)
(* creates seven tasks of its own and awaits them.  A task is followed     *)
(* only as far as its end: it is "active" from its creation until it       *)
(* evaluates `while self.running` with the flag false, and then "exited".  *)
(* An active task that finds the flag true goes round its loop, which      *)
(* changes nothing here.                                                   *)
(***************************************************************************)
Starts == 1..MaxStarts

\* The tasks of a worker kind that have been created and have not returned.
ActiveTasks(w) == {g \in Starts : tasks[g][w] = "active"}

\* start(): returns at once when the flag is set; otherwise sets it, creates
\* the seven tasks and awaits gather.
call_start ==
    IF running
    THEN /\ last_call' = "start_refused"
         /\ UNCHANGED <<running, tasks, start_calls>>
    ELSE \E g \in Starts :
            /\ start_calls[g] = "none"
            /\ \A h \in 1..(g - 1) : start_calls[h] # "none"
            /\ running' = TRUE
            /\ tasks' = [tasks EXCEPT ![g] = [w \in Workers |-> "active"]]
            /\ start_calls' = [start_calls EXCEPT ![g] = "gather"]
            /\ last_call' = "start"

\* stop(): clears the flag.
call_stop ==
    /\ running' = FALSE
    /\ last_call' = "stop"
    /\ UNCHANGED <<tasks, start_calls>>

\* `while self.running:` of a task evaluated with the flag false: the
\* coroutine returns.
task_exit(g, w) ==
    /\ tasks[g][w] = "active"
    /\ while_running(running, "active") = "exited"
    /\ tasks' = [tasks EXCEPT ![g][w] = "exited"]
    /\ UNCHANGED <<running, start_calls, last_call>>

\* gather of one start() returns when its seven tasks have; `finally`
\* clears the flag.
gather_return(g) ==
    /\ start_calls[g] = "gather"
    /\ \A w \in Workers : tasks[g][w] = "exited"
    /\ running' = FALSE
    /\ start_calls' = [start_calls EXCEPT ![g] = "returned"]
    /\ UNCHANGED <<tasks, last_call>>

RestartFrame == UNCHANGED <<pipeline_vars, chunk_vars, git_vars, sched_vars,
                            store_vars, index_vars, start_pc, worker_pc,
                            term_idx, config_keys, download_vars, api_vars>>

RestartSpecInit ==
    /\ PipelineIdle /\ ChunkIdle /\ GitInit /\ SchedInit
    /\ StoreIdle /\ IndexInit /\ LifeInit /\ DownloadIdle /\ ApiIdle
    /\ RestartIdle

RestartNext ==
    \/ call_start /\ RestartFrame
    \/ call_stop /\ RestartFrame
    \/ (\E g \in Starts, w \in Workers : task_exit(g, w)) /\ RestartFrame
    \/ (\E g \in Starts : gather_return(g)) /\ RestartFrame

RestartSpec == RestartSpecInit /\ [][RestartNext]_vars

\* The event loop brings every task to the condition of its loop again and
\* again, and resumes a start() whose gather is done.  Nothing is assumed
\* about the calls of start() and stop().
FairRestartSpec ==
    /\ RestartSpecInit
    /\ [][RestartNext]_vars
    /\ \A g \in Starts :
          /\ \A w \in Workers : WF_vars(task_exit(g, w) /\ RestartFrame)
          /\ WF_vars(gather_return(g) /\ RestartFrame)

----------------------------------------------------------------------------
(* Properties *)

\* The items a step appended to the queue it found.
Added ==
    SubSeq(processing_queue', Len(processing_queue) + 1, Len(processing_queue'))

InQueue(p, stages) ==
    \E i \in 1..Len(processing_queue) :
        processing_queue[i].pmid = p /\ processing_queue[i].stage \in stages

\* C1: every WorkItem the search worker enqueues is at stage 'metadata' and
\* is for a sighted record whose contentId is not in the Dedup Index at the
\* sighting; a sighting of a contentId in the index adds no item, and the
\* search changes nothing else in the queue or the index.
C1_DiscoverDedup ==
    [][ev'.op = "search" =>
        /\ Len(processing_queue') >= Len(processing_queue)
        /\ SubSeq(processing_queue', 1, Len(processing_queue)) = processing_queue
        /\ processed_pmids' = processed_pmids
        /\ \A i \in 1..Len(Added) :
            /\ Added[i].stage = "metadata"
            /\ Added[i].pmid \in ev'.results
            /\ Added[i].pmid \notin processed_pmids]_vars

\* C1 witness: index = {111}, the search sighted 111 and 222, only 222 is queued.
C1_Witness ==
    /\ ev.op = "search"
    /\ processed_pmids = {"111"}
    /\ ev.results = {"111", "222"}
    /\ Len(processing_queue) = 1
    /\ processing_queue[1].pmid = "222"
    /\ processing_queue[1].stage = "metadata"

Rank(stage) == IF stage = "none" THEN 0 ELSE StageRank(stage)

\* The WorkItems a step emitted (a requeue is not an emission).
StepEmitted ==
    CASE ev'.op = "search" -> Added
      [] ev'.op \in {"meta_done", "fulltext_done"} ->
            <<processing_queue'[Len(processing_queue')]>>
      [] OTHER -> <<>>

\* The stage of the emission for the same pmid that precedes the i-th
\* emission of the step: an earlier one of the step, else the last before it.
RECURSIVE PrevStage(_, _, _)
PrevStage(emitted, i, j) ==
    IF j = 0 THEN last_stage[emitted[i].pmid]
    ELSE IF emitted[j].pmid = emitted[i].pmid THEN emitted[j].stage
    ELSE PrevStage(emitted, i, j - 1)

\* A worker emits at a later stage than that of the item it consumed.
EmitsForward ==
    ev'.op \in {"meta_done", "fulltext_done"} =>
        Rank(StepEmitted[1].stage) > Rank(ev'.stage)

\* A requeue puts the identical item back at the tail.
RequeueKeepsItem ==
    ev'.op \in {"fulltext_requeue", "ocr_requeue"} =>
        processing_queue' = Append(Tail(processing_queue), Head(processing_queue))

\* C2 as stated: for every contentId the stages of the emitted WorkItems are
\* strictly increasing, no worker emits at an earlier stage than the one it
\* consumed, and a requeue leaves the stage unchanged.
C2_StrictlyIncreasing ==
    [][/\ \A i \in 1..Len(StepEmitted) :
            Rank(StepEmitted[i].stage) > Rank(PrevStage(StepEmitted, i, i - 1))
       /\ EmitsForward
       /\ RequeueKeepsItem]_vars

\* C2 amended: for every contentId the stages of the emitted WorkItems never
\* decrease, and only 'metadata' can repeat ('fulltext' and 'ocr' are emitted
\* at most once); no worker emits at an earlier stage than the one it
\* consumed, and a requeue puts the item back unchanged.
C2_NoRegression ==
    [][/\ \A i \in 1..Len(StepEmitted) :
            LET new == Rank(StepEmitted[i].stage)
                old == Rank(PrevStage(StepEmitted, i, i - 1))
            IN  /\ new >= old
                /\ StepEmitted[i].stage # "metadata" => new > old
       /\ EmitsForward
       /\ RequeueKeepsItem]_vars

\* C2 witness: 111 has reached 'ocr' while a second sighting of it is still
\* queued at 'metadata'.
C2_Witness ==
    /\ last_stage["111"] = "ocr"
    /\ InQueue("111", {"metadata"})
    /\ InQueue("111", {"ocr"})

\* C3: when the metadata worker handles an item whose enrichment returned a
\* record, at the end of the step the abstract and the metadata are
\* persisted, the contentId is in the Dedup Index and exactly one 'fulltext'
\* WorkItem with the item's category and search term has been put.
C3_MetadataCompletion ==
    [][ev'.op = "meta_done" =>
        LET item == Head(processing_queue)
        IN  /\ item.pmid \in abstract_files'
            /\ metadata_files'[item.pmid] # "none"
            /\ item.pmid \in processed_pmids'
            /\ Len(processing_queue') = Len(processing_queue)
            /\ SubSeq(processing_queue', 1, Len(processing_queue) - 1)
                   = Tail(processing_queue)
            /\ LET next == processing_queue'[Len(processing_queue')]
               IN  /\ next.pmid = item.pmid
                   /\ next.stage = "fulltext"
                   /\ next.category = item.category
                   /\ next.search_term = item.search_term]_vars

\* C4: when the enrichment of the item the metadata worker handles yields no
\* result because its relevance score is below the threshold, the step emits
\* no WorkItem and persists no metadata and no abstract.
C4_RelevanceFilter ==
    [][(/\ ev'.op \in {"meta_error", "meta_done"}
        /\ Head(processing_queue).article.score < RelevanceThreshold) =>
        /\ processing_queue' = Tail(processing_queue)
        /\ abstract_files' = abstract_files
        /\ metadata_files' = metadata_files
        /\ last_stage' = last_stage]_vars

\* C4 witness: the metadata worker has handled 222, whose score is below the
\* threshold, and nothing is stored or queued for it.
C4_Witness ==
    /\ ev.op = "meta_error"
    /\ ev.pmid = "222"
    /\ ArticleScore["222"] < RelevanceThreshold
    /\ ~InQueue("222", {"metadata", "fulltext", "ocr"})

\* C5: a contentId whose download failed on every adapter is in the Dedup
\* Index, has no 'ocr' WorkItem emitted for it, and is neither queued again
\* at 'fulltext' or 'ocr' nor held by the fulltext worker.
C5_LossyFulltextFailure ==
    \A x \in fulltext_failed :
        /\ x \in processed_pmids
        /\ last_stage[x] # "ocr"
        /\ ~InQueue(x, {"fulltext", "ocr"})
        /\ ft_item.pmid # x

\* C5 witness: the fulltext worker has just dropped 111 after every adapter
\* failed.
C5_Witness ==
    /\ ev.op = "fulltext_drop"
    /\ ev.pmid = "111"
    /\ "111" \in fulltext_failed
    /\ "111" \in processed_pmids

\* C6: an item is consumed only by the worker of its stage: the metadata
\* worker takes only 'metadata' items, the fulltext worker only 'fulltext'
\* items, the chunk worker only 'ocr' items.
C6_StageExclusivity ==
    /\ ev.op \in {"meta_skip", "meta_error", "meta_done"} => ev.stage = "metadata"
    /\ ev.op \in {"fulltext_get", "fulltext_drop", "fulltext_done"} => ev.stage = "fulltext"
    /\ ev.op = "ocr_done" => ev.stage = "ocr"

\* C7: the metadata worker and the fulltext worker emit the successor
\* WorkItem only after their write to the store has succeeded.
C7_WriteThrough ==
    /\ ev.op = "meta_done" =>
           ev.pmid \in abstract_files /\ metadata_files[ev.pmid] # "none"
    /\ ev.op = "fulltext_done" => ev.pmid \in text_files

\* C8: for every 'ocr' item with non-empty full text that the chunk worker
\* consumes, the chunk list and the searchable text are persisted and the
\* item is marked 'complete' (checked for the runs in which no write has
\* failed).
C8_ChunkCompletion ==
    [][(/\ ev'.op = "ocr_done"
        /\ Head(processing_queue).article.full_text # ""
        /\ write_failures' = 0) =>
        /\ ev'.pmid \in chunk_files'
        /\ ev'.pmid \in searchable_files'
        /\ metadata_files'[ev'.pmid] = "complete"]_vars

\* The 0-based starts of the windows of the loop.
WindowStarts == {i \in 0..(Len(text) - 1) : i % (chunk_size - overlap) = 0}

\* C9: chunking drops exactly the windows whose trimmed text is shorter than
\* the minimum of 50 characters: no emitted chunk is shorter, and every
\* window of 50 or more characters is emitted.
C9_ChunkMinimum ==
    (chunk_pc = "done" /\ chunk_size > overlap) =>
        /\ \A k \in 1..Len(chunks) : chunks[k].text_len >= MinChunkChars
        /\ \A i \in WindowStarts :
            JoinedLen(text, i, Min(i + chunk_size, Len(text))) >= MinChunkChars
                => \E k \in 1..Len(chunks) : chunks[k].start_word = i

\* C10: with window size 1000 and overlap 200, every pair of consecutive
\* emitted chunks i, i+1 has chunk[i].end_word - 200 = chunk[i+1].start_word,
\* except possibly the pair that ends with the final chunk.
C10_ChunkOverlap ==
    (chunk_pc = "done" /\ chunk_size = DefaultChunkSize /\ overlap = DefaultOverlap) =>
        \A k \in 1..(Len(chunks) - 2) :
            chunks[k].end_word - overlap = chunks[k + 1].start_word

\* C10 witness: four chunks, the equation holds for the pairs before the
\* final chunk and fails for the pair that ends with it.
C10_Witness ==
    /\ chunk_pc = "done"
    /\ chunk_size = DefaultChunkSize
    /\ overlap = DefaultOverlap
    /\ Len(chunks) = 4
    /\ chunks[3].end_word - overlap # chunks[4].start_word

\* C26: when the enrichment of the item the metadata worker handles signals
\* 'below the relevance threshold', the worker drops the item as a normal
\* outcome: the step does not end in the worker's error-handling path.
C26_NoErrorOnFilter ==
    [][(/\ ev'.op \in {"meta_error", "meta_done"}
        /\ Head(processing_queue).article.score < RelevanceThreshold)
       => ev'.op # "meta_error"]_vars

\* C27: the k-th emitted chunk (k from 0) has chunk_id '{pmid}_{k}': the
\* ids are distinct and form 0..n-1 in emission order with no gap even when
\* windows are dropped, and start_word is strictly increasing.
C27_ChunkIds ==
    chunk_pc = "done" =>
        \A k \in 1..Len(chunks) :
            /\ chunks[k].chunk_id = <<ChunkPmid, k - 1>>
            /\ \A j \in 1..(k - 1) :
                /\ chunks[j].chunk_id # chunks[k].chunk_id
                /\ chunks[j].start_word < chunks[k].start_word

\* C27 witness: the window at word 0 was dropped and two later windows
\* were emitted.
C27_Witness ==
    /\ chunk_pc = "done"
    /\ Len(chunks) = 2
    /\ chunks[1].start_word > 0
    /\ chunks[2].chunk_id = <<ChunkPmid, 1>>

\* C28: chunking returns for every text and every pair (window size,
\* overlap), including overlap >= window size: the call never raises.
C28_ChunkingReturns == chunk_pc # "raised"

----------------------------------------------------------------------------
(* Checkpoint cadence (GitSpec) *)

\* C11: commit cadence.  A call without force that records the 1st to the
\* (n-1)th successive item of a stage since the last commit does not commit
\* and the call that records the nth commits when the commit operation
\* succeeds, with n = 10 for 'metadata', 5 for 'abstract', 3 for 'fulltext'
\* and 2 for 'ocr'; 'batch_complete' and 'status_update' commit on every call.
C11_CommitCadence ==
    [][/\ git_ev'.op = "record_item" =>
            LET k == since_commit + 1
                n == CommitEvery[rec_stage]
            IN  /\ k < n => git_ev'.commit_attempts = 0
                /\ (k = n /\ git_ev'.commit_ok) => git_ev'.committed
       /\ (/\ git_ev'.op = "checkpoint"
           /\ git_ev'.stage \in AlwaysStages
           /\ git_ev'.commit_ok) => git_ev'.committed]_vars

\* The calls of commit_and_push_if_needed.
IsCheckpointCall(e) == e.op \in {"record_item", "checkpoint"}

\* C12: push cadence table.  A call without force for a stage of the table
\* whose cumulative count is a positive multiple of the stage's 'push every'
\* value (metadata 50, abstract 25, fulltext 10, ocr 5) pushes when the
\* commit and push operations succeed.
C12_PushCadence ==
    (/\ git_ev.op = "record_item"
     /\ git_ev.count > 0
     /\ git_ev.count % PushEvery[git_ev.stage] = 0
     /\ git_ev.commit_ok
     /\ git_ev.push_ok) => git_ev.pushed

\* C13: heartbeat.  When no push has succeeded yet, or more than one hour
\* has passed since the last successful push, a call without force for a
\* stage of the table pushes whatever its count (the git operations
\* succeeding).
C13_Heartbeat ==
    [][(/\ IsCheckpointCall(git_ev')
        /\ ~git_ev'.force_push
        /\ git_ev'.stage \in CadenceStages \cup AlwaysStages
        /\ \/ git_manager.last_push_time = None
           \/ now - git_manager.last_push_time > HourlyPushSeconds
        /\ git_ev'.commit_ok
        /\ git_ev'.push_ok) => git_ev'.pushed]_vars

\* C14 as stated: a call with force = true runs both a commit and a push,
\* for every stage name and every count.
C14_ForceBoth ==
    (IsCheckpointCall(git_ev) /\ git_ev.force_push)
        => (git_ev.commit_attempts = 1 /\ git_ev.push_attempts = 1)

\* C14 (amended): a call with force = true runs a commit for every stage
\* name and every count, and runs a push exactly when that commit succeeds.
C14_ForceCommitThenPush ==
    (IsCheckpointCall(git_ev) /\ git_ev.force_push)
        => /\ git_ev.commit_attempts = 1
           /\ git_ev.push_attempts = (IF git_ev.commit_ok THEN 1 ELSE 0)

C14_Witness ==
    /\ git_ev.op = "checkpoint"
    /\ git_ev.force_push
    /\ git_ev.stage = "rss_update"
    /\ git_ev.committed
    /\ git_ev.pushed

\* C15: commit failure aborts.  In commit_and_push_if_needed and in
\* force_commit_and_push, when the commit fails no push is attempted, the
\* call returns False, and commit_count and last_push_time are unchanged.
C15_CommitFailureAborts ==
    [][(/\ git_ev'.op \in {"record_item", "checkpoint", "force_commit_and_push"}
        /\ git_ev'.commit_attempts = 1
        /\ ~git_ev'.commit_ok)
       => /\ git_ev'.push_attempts = 0
          /\ ~git_ev'.ret
          /\ git_manager' = git_manager]_vars

C15_Witness ==
    /\ git_ev.op = "checkpoint"
    /\ git_ev.force_push
    /\ git_ev.commit_attempts = 1
    /\ ~git_ev.commit_ok
    /\ git_manager.commit_count = 1

\* C16: push failure keeps the commit, no immediate retry.  When the commit
\* succeeds and the push fails, commit_count stays incremented and
\* last_push_time is unchanged; every call makes at most one commit attempt
\* and at most one push attempt.
C16_PushFailureKeepsCommit ==
    [][IsCheckpointCall(git_ev') =>
        /\ git_ev'.commit_attempts <= 1
        /\ git_ev'.push_attempts <= 1
        /\ (git_ev'.committed /\ git_ev'.push_attempts > 0 /\ ~git_ev'.push_ok)
             => /\ git_manager'.commit_count = git_manager.commit_count + 1
                /\ git_manager'.last_push_time = git_manager.last_push_time]_vars

C16_Witness ==
    /\ IsCheckpointCall(git_ev)
    /\ git_ev.committed
    /\ git_ev.push_attempts = 1
    /\ ~git_ev.pushed
    /\ git_manager.commit_count = 2
    /\ git_manager.last_push_time # None

\* C17: commit_and_push_if_needed returns True if a commit or a push was
\* performed during the call, and False only when nothing was committed or
\* pushed.
C17_ResultReportsWork ==
    IsCheckpointCall(git_ev) => (git_ev.ret <=> (git_ev.committed \/ git_ev.pushed))

\* The calls of the GitManager that can push.
IsGitCall(e) == e.op \in {"record_item", "checkpoint", "force_commit_and_push"}

\* C29: last_push_time changes only as the effect of a successful push, in
\* commit_and_push_if_needed or force_commit_and_push, and is set (to the
\* time of the call) on every successful push; a failed commit, a failed
\* push or a skipped call leaves it unchanged, so it is unset exactly as
\* long as no push has succeeded.
C29_LastPushTime ==
    [][/\ git_manager'.last_push_time # git_manager.last_push_time
            => (IsGitCall(git_ev') /\ git_ev'.pushed)
       /\ (IsGitCall(git_ev') /\ git_ev'.pushed)
            => (git_manager'.last_push_time = now /\ now # None)
       /\ (IsGitCall(git_ev') /\ ~git_ev'.pushed)
            => git_manager'.last_push_time = git_manager.last_push_time]_vars

\* C29 witness: a push succeeded in the first hour, and a later
\* force_commit_and_push whose push failed left last_push_time as it was.
C29_Witness ==
    /\ git_ev.op = "force_commit_and_push"
    /\ git_ev.committed
    /\ ~git_ev.pushed
    /\ git_manager.last_push_time = 0
    /\ now > 0

----------------------------------------------------------------------------
(* Publication schedulers (SchedSpec) *)

\* C18: feed gate.  At each check of the feed scheduler the feeds are
\* regenerated if and only if no generation has succeeded yet or at least
\* 6 hours (>= 21600 s, boundary included) have passed since the last
\* successful generation.
C18_FeedGate ==
    [][sched_ev'.op = "rss" =>
        (sched_ev'.should <=> (\/ last_rss_generation = None
                               \/ now - last_rss_generation >= RssPeriod))]_vars

\* C19: dashboard gate.  At each check of the status scheduler the status
\* page is regenerated if and only if it was never generated or at least
\* 30 minutes (>= 1800 s, boundary included) have passed since the last
\* successful generation.
C19_DashboardGate ==
    [][sched_ev'.op = "status" =>
        (sched_ev'.should <=> (\/ last_status_update = None
                               \/ now - last_status_update >= StatusPeriod))]_vars

\* The positions of the steps of an iteration that write artifacts, and of
\* those that call the checkpoint with force = true.
WriteSteps(steps) ==
    {i \in 1..Len(steps) : steps[i].call \in {"write_feeds", "write_status_page"}}

ForcedCheckpoints(steps) ==
    {i \in 1..Len(steps) :
        steps[i].call = "commit_and_push_if_needed" /\ steps[i].force_push}

\* C20: publish then checkpoint.  Every successful feed regeneration and
\* every successful status-page regeneration is followed, in the same
\* scheduler iteration and after the artifacts are written, by a
\* commit_and_push_if_needed call with force = true; an iteration whose
\* generation was skipped or failed issues no forced checkpoint.
C20_PublishThenCheckpoint ==
    sched_ev.op \in {"rss", "status"} =>
        IF sched_ev.should /\ sched_ev.output > 0
        THEN \E i \in WriteSteps(sched_ev.steps), j \in ForcedCheckpoints(sched_ev.steps) :
                i < j
        ELSE \A i \in 1..Len(sched_ev.steps) : ~sched_ev.steps[i].force_push

C20_Witness ==
    /\ sched_ev.op = "rss"
    /\ sched_ev.output = 2
    /\ Len(sched_ev.steps) = 4
    /\ sched_ev.steps[4].ret
    /\ last_status_update # None
    /\ last_rss_generation > 0

\* C30: last_rss_generation and last_status_update are each written only
\* by an iteration of their own scheduler whose generation produced output,
\* and then hold the time of that iteration; an iteration that generated
\* nothing leaves the timestamp as it was, each iteration attempts the
\* generation exactly when its gate is open, and an open gate stays open
\* until a generation produces output.
C30_PublicationSnapshot ==
    [][/\ last_rss_generation' # last_rss_generation
            => (sched_ev'.op = "rss" /\ sched_ev'.output > 0)
       /\ last_status_update' # last_status_update
            => (sched_ev'.op = "status" /\ sched_ev'.output > 0)
       /\ (sched_ev'.op = "rss" /\ sched_ev'.output > 0)
            => last_rss_generation' = now
       /\ (sched_ev'.op = "status" /\ sched_ev'.output > 0)
            => last_status_update' = now
       /\ sched_ev'.op = "rss"
            => (sched_ev'.should <=> _should_generate_rss(last_rss_generation, now))
       /\ sched_ev'.op = "status"
            => (sched_ev'.should <=> _should_update_status(last_status_update, now))
       /\ (/\ _should_generate_rss(last_rss_generation, now)
           /\ ~(sched_ev'.op = "rss" /\ sched_ev'.output > 0))
            => _should_generate_rss(last_rss_generation', now')
       /\ (/\ _should_update_status(last_status_update, now)
           /\ ~(sched_ev'.op = "status" /\ sched_ev'.output > 0))
            => _should_update_status(last_status_update', now')]_vars

\* C30 witness: feeds were generated at time 0, and more than six hours
\* later an iteration of _rss_worker attempted a generation that returned
\* no feed and left last_rss_generation at 0.
C30_Witness ==
    /\ sched_ev.op = "rss"
    /\ sched_ev.should
    /\ sched_ev.output = 0
    /\ last_rss_generation = 0
    /\ now > RssPeriod

----------------------------------------------------------------------------
(* Full-text store (StoreSpec) *)

\* C25: a get_article_fulltext(pmid) that follows a store_article_fulltext
\* (pmid, data) that returned True returns a record whose full_text and
\* full_text_source are those of data; and get_article_fulltext of a pmid
\* with no stored file or object returns None.
C25_RoundTrip ==
    [][/\ (/\ store_ev.op = "store"
           /\ store_ev.ret
           /\ store_ev'.op = "get"
           /\ store_ev'.pmid = store_ev.pmid)
            => /\ store_ev'.record.found
               /\ store_ev'.record.full_text = store_ev.data.full_text
               /\ store_ev'.record.full_text_source = store_ev.data.full_text_source
       /\ (/\ store_ev'.op = "get"
           /\ ~texts_dir[store_ev'.pmid].exists
           /\ ~metadata_dir[store_ev'.pmid].exists
           /\ ~s3_texts[store_ev'.pmid].exists
           /\ ~s3_metadata[store_ev'.pmid].exists)
            => ~store_ev'.record.found]_vars

----------------------------------------------------------------------------
(* Search failures and the Dedup Index (IndexSpec) *)

\* The term the search worker handles at position pos of its cycle.
TermAt(pos) == SearchTerms[(pos % Len(SearchTerms)) + 1]

C24_DedupIndexGrows ==
    [][/\ processed_pmids \subseteq processed_pmids'
       /\ processed_pmids' # processed_pmids => ev'.op = "meta_done"
       /\ ev'.op = "meta_done"
            => processed_pmids' = processed_pmids \cup {ev'.pmid}
       /\ ev'.op = "index" => processed_pmids' = processed_pmids]_vars

\* C24 witness: the index file holds a non-empty Dedup Index, and the
\* metadata worker has just completed an item and added a pmid to it.
C24_Witness ==
    /\ ev.op = "meta_done"
    /\ index_file.readable
    /\ Len(index_file.pmids) = 1
    /\ index_file.pmids[1] \in processed_pmids
    /\ Cardinality(processed_pmids) = 2

----------------------------------------------------------------------------
(* Worker loops and shutdown (LifeSpec, FairLifeSpec) *)

\* C22: a worker loop ends only by finding self.running false at the
\* condition of its while loop, so never while the flag is true; a worker
\* in the sleep of its exception handler goes back to the condition of its
\* loop, and while the flag is true it goes from there into its next
\* iteration.
C22_WorkerSurvival ==
    [][\A w \in Workers :
        /\ (worker_pc[w] # "exited" /\ worker_pc'[w] = "exited")
             => (~running /\ worker_pc[w] = "loop")
        /\ worker_pc[w] = "error_sleep"
             => worker_pc'[w] \in {"error_sleep", "loop"}
        /\ (worker_pc[w] = "loop" /\ running /\ worker_pc'[w] # "loop")
             => worker_pc'[w] \in {"term", "get", "sleep", "error_sleep"}]_vars

\* C22 witness: with the flag true, the search worker, a queue worker and
\* the index worker are each in the sleep that follows a failure, and
\* another queue worker is waiting for its next item.
C22_Witness ==
    /\ running
    /\ worker_pc["search"] = "error_sleep"
    /\ worker_pc["metadata"] = "error_sleep"
    /\ worker_pc["index"] = "error_sleep"
    /\ worker_pc["fulltext"] = "get"

\* C23 with start() called once: a worker that holds an item finishes
\* handling it before anything else; a worker starts waiting for an item only from the condition of
\* its loop with self.running true, and leaves that condition to nothing
\* but its exit when the flag is false; an exited worker stays exited; and
\* once the flag is false while start() awaits its tasks, every worker
\* eventually exits and start() returns with the flag false.
C23_CooperativeShutdown ==
    /\ [][\A w \in Workers :
            /\ worker_pc[w] = "item"
                 => worker_pc'[w] \in {"item", "loop", "error_sleep"}
            /\ (worker_pc'[w] = "item" /\ worker_pc[w] # "item")
                 => worker_pc[w] = "get"
            /\ (worker_pc'[w] = "get" /\ worker_pc[w] # "get")
                 => (running /\ worker_pc[w] = "loop")
            /\ (worker_pc[w] = "loop" /\ ~running /\ worker_pc'[w] # "loop")
                 => worker_pc'[w] = "exited"
            /\ worker_pc[w] = "exited" => worker_pc'[w] = "exited"]_vars
    /\ (start_pc = "gather" /\ ~running)
         ~> (/\ start_pc = "returned"
             /\ ~running
             /\ \A w \in Workers : worker_pc[w] = "exited")

\* C23 witness: stop() has cleared the flag while the fulltext worker holds
\* an item and the search worker is in the middle of a cycle; the metadata
\* worker has already exited.
C23_Witness ==
    /\ start_pc = "gather"
    /\ ~running
    /\ worker_pc["fulltext"] = "item"
    /\ worker_pc["search"] = "term"
    /\ worker_pc["metadata"] = "exited"

----------------------------------------------------------------------------
(* The snapshot of the Dedup Index (IndexSpec) *)

\* The ids a snapshot file lists.
SnapshotIds(file) == {file.pmids[i] : i \in 1..Len(file.pmids)}

C32_SnapshotReload ==
    /\ [](ev.op = "init"
            => /\ ~running
               /\ index_file.readable => processed_pmids = SnapshotIds(index_file)
               /\ ~index_file.readable => processed_pmids = {})
    /\ [][(ev'.op = "index" /\ ev'.write_ok)
            => _load_processed_index(index_file') = processed_pmids]_vars

\* C32 witness: a processor that has just been constructed on a snapshot
\* of two ids.
C32_Witness ==
    /\ ev.op = "init"
    /\ index_file.readable
    /\ Len(index_file.pmids) = 2
    /\ processed_pmids = PMIDs

----------------------------------------------------------------------------
(* Adapter order (DownloadSpec) *)

\* The positions of the adapters that yield full text when called.
Yielding == {k \in 1..Len(Adapters) : dl_outcomes[Adapters[k]] = "text"}

\* C33: without an earlier download, the adapters called are an initial
\* part of pubmed_central, arxiv, sci_hub, direct_pdf; when some adapter
\* yields full text the calls end with the first such adapter, whatever the
\* adapters before it returned or raised, and the result is its result;
\* when none does, all four are called and the result has no full text, so
\* the fulltext worker puts no successor.
C33_AdapterOrder ==
    (dl_pc = "done" /\ dl_existing = NoDownload) =>
        /\ Len(dl_tried) <= Len(Adapters)
        /\ \A i \in 1..Len(dl_tried) : dl_tried[i] = Adapters[i]
        /\ Yielding # {} =>
              LET first == CHOOSE k \in Yielding : \A j \in Yielding : k <= j
              IN  /\ Len(dl_tried) = first
                  /\ dl_result.full_text # ""
                  /\ dl_result.full_text_source = Adapters[first]
        /\ Yielding = {} =>
              /\ Len(dl_tried) = Len(Adapters)
              /\ dl_result.full_text = ""
              /\ FulltextSuccessor(NoItem, dl_result) = <<>>

\* C33 witness: pubmed_central raised, arxiv yielded full text and sci_hub
\* would have: the result is that of arxiv and sci_hub was not called.
C33_Witness ==
    /\ dl_pc = "done"
    /\ dl_existing = NoDownload
    /\ dl_outcomes["pubmed_central"] = "raise"
    /\ dl_outcomes["arxiv"] = "text"
    /\ dl_outcomes["sci_hub"] = "text"
    /\ dl_tried = <<"pubmed_central", "arxiv">>
    /\ dl_result.full_text_source = "arxiv"

(***************************************************************************)
(* Not-found responses                                                     *)
(***************************************************************************)
\* C35: a GET or DELETE /results/{search_id} request for a search_id that
\* has no stored results is answered with HTTP 404 'Search results not
\* found'.  Violated: the 404 the GET handler raises is caught by its own
\* 'except Exception' and answered as 500, and delete_results of the
\* StorageManager returns True for a file that never existed, so DELETE
\* answers 200 'deleted successfully'.
C35_NotFound ==
    [][(/\ api_ev'.method \in {"GET", "DELETE"}
        /\ search_files[api_ev'.search_id] = NoResults)
       => (api_ev'.status = 404 /\ api_ev'.detail = NotFoundDetail)]_vars

(***************************************************************************)
(* Requeue                                                                 *)
(***************************************************************************)
\* The number of times an item occurs in a queue.
Occurrences(queue, item) == Cardinality({i \in DOMAIN queue : queue[i] = item})

\* C39: when the fulltext worker or the chunk worker takes an item whose
\* stage is not its own, it puts back the identical item: the queue holds the
\* same items the same number of times as before the take, the item is at
\* the tail, and the step writes no file, leaves the Dedup Index as it was
\* and emits no successor.
C39_RequeueConserves ==
    [][ev'.op \in {"fulltext_requeue", "ocr_requeue"} =>
        /\ Len(processing_queue') = Len(processing_queue)
        /\ \A i \in DOMAIN processing_queue :
              Occurrences(processing_queue', processing_queue[i])
                  = Occurrences(processing_queue, processing_queue[i])
        /\ processing_queue'[Len(processing_queue')] = Head(processing_queue)
        /\ StepEmitted = <<>>
        /\ UNCHANGED <<processed_pmids, search_pos, ft_item, abstract_files,
                       metadata_files, text_files, pdf_files, download_files,
                       chunk_files, searchable_files, last_stage,
                       fulltext_failed, write_failures>>]_vars

\* C39 witness: the chunk worker has put a 'fulltext' item back behind
\* another item of the queue.
C39_Witness ==
    /\ ev.op = "ocr_requeue"
    /\ ev.stage = "fulltext"
    /\ Len(processing_queue) = 2
    /\ processing_queue[2].stage = "fulltext"
    /\ processing_queue[2].pmid = ev.pmid

(***************************************************************************)
(* Filtered records                                                        *)
(***************************************************************************)
\* The pmids whose article the relevance filter drops.
FilteredPmids == {p \in PMIDs : ArticleScore[p] < RelevanceThreshold}

\* C37: the metadata step of a contentId whose enrichment is filtered out
\* does not add it to the Dedup Index, no step ever adds such a contentId,
\* and so every later search that sights it enqueues it at stage 'metadata'
\* again.
C37_FilteredNotRemembered ==
    /\ [][
          /\ ev'.op = "meta_error" =>
                /\ processed_pmids' = processed_pmids
                /\ ev'.pmid \notin processed_pmids'
          /\ \A p \in FilteredPmids :
                (p \in processed_pmids') => (p \in processed_pmids)
          /\ ev'.op = "search" =>
                \A p \in (ev'.results \cap FilteredPmids) \ processed_pmids :
                    \E i \in DOMAIN Added :
                        Added[i].pmid = p /\ Added[i].stage = "metadata"
       ]_vars
    /\ \A p \in PMIDs :
            []((ev.op = "meta_error" /\ ev.pmid = p) => [](p \notin processed_pmids))

\* C37 witness: the metadata worker has dropped the filtered 222 without
\* remembering it, and a search cycle is still to come.
C37_Witness ==
    /\ ev.op = "meta_error"
    /\ ev.pmid = "222"
    /\ "222" \notin processed_pmids
    /\ processing_queue = <<>>
    /\ search_pos = 1

(***************************************************************************)
(* One enrichment per contentId                                            *)
(***************************************************************************)
\* C36: within one run at most one 'fulltext' WorkItem is emitted and the
\* metadata and abstract are written at most once for any contentId, however
\* many copies of it are queued: only a completed metadata step emits a
\* 'fulltext' item or writes the metadata or the abstract, it does so only
\* for a contentId that is not yet in the Dedup Index and has none of the
\* three, it adds the contentId to the index, and nothing leaves the index.
C36_OneEnrichment ==
    [][
        /\ processed_pmids \subseteq processed_pmids'
        /\ \A i \in DOMAIN StepEmitted :
              StepEmitted[i].stage = "fulltext" =>
                  /\ ev'.op = "meta_done"
                  /\ StepEmitted[i].pmid = ev'.pmid
                  /\ Len(StepEmitted) = 1
        /\ \A p \in PMIDs :
              (\/ metadata_files'[p] = "metadata_abstract"
                    /\ metadata_files[p] # "metadata_abstract"
               \/ p \in abstract_files' \ abstract_files)
                  => (ev'.op = "meta_done" /\ ev'.pmid = p)
        /\ ev'.op = "meta_done" =>
              /\ ev'.pmid \notin processed_pmids
              /\ ev'.pmid \in processed_pmids'
              /\ last_stage[ev'.pmid] = "metadata"
              /\ metadata_files[ev'.pmid] = "none"
              /\ ev'.pmid \notin abstract_files
      ]_vars

\* C36 witness: 111 was queued twice at 'metadata'; the first copy was
\* enriched and the second has just been dropped, leaving the one 'fulltext'
\* item.
C36_Witness ==
    /\ ev.op = "meta_skip"
    /\ ev.pmid = "111"
    /\ ev.stage = "metadata"
    /\ Len(processing_queue) = 1
    /\ processing_queue[1].pmid = "111"
    /\ processing_queue[1].stage = "fulltext"
    /\ metadata_files["111"] = "metadata_abstract"

(***************************************************************************)
(* Missing configuration                                                   *)
(***************************************************************************)
\* C34: when the configuration lacks a required key, start() refuses to
\* start: the processor does not get into the running state and no worker
\* loops.  Violated: start() never looks at the configuration; it sets the
\* flag and creates the seven tasks, and the KeyError of _search_worker is
\* caught by the handler of its loop, which retries after 60 seconds.
C34_RefusesToStart ==
    KeyError(config_keys) =>
        /\ ~running
        /\ start_pc # "gather"
        /\ \A w \in Workers : worker_pc[w] = "idle"

(***************************************************************************)
(* start() after stop()                                                    *)
(***************************************************************************)
\* C38: at most one task of each worker kind is active at any time,
\* whatever the sequence of start() and stop() calls.  Violated: stop() only
\* clears the flag, so a start() that follows it passes the guard and
\* creates seven more tasks while those of the earlier start() have not
\* reached the condition of their loop; they find the flag true again and
\* go on.
C38_SingleWorkerSet ==
    \A w \in Workers : Cardinality(ActiveTasks(w)) <= 1

\* C23 for every sequence of start() and stop() calls: once stop() has
\* cleared the flag while a start() awaits its tasks, every task of that
\* start() eventually exits and the start() returns.  Violated: a start()
\* called before the tasks reach the condition of their loop sets the flag
\* again (the case of C38), the tasks go on and the first start() never
\* returns.
C23_ShutdownAfterStop ==
    \A g \in Starts :
        (last_call = "stop" /\ ~running /\ start_calls[g] = "gather")
            ~> (/\ start_calls[g] = "returned"
                /\ \A w \in Workers : tasks[g][w] = "exited")

(***************************************************************************)
(* Pipeline progress                                                       *)
(***************************************************************************)
\* C40: under fair scheduling of the workers every WorkItem in the queue is
\* eventually taken and handled by the worker of its own stage: a 'metadata'
\* item by the metadata worker, a 'fulltext' item by the fulltext worker, an
\* 'ocr' item by the chunk worker.  Violated: the metadata worker takes
\* whatever is at the head of the queue and drops a 'fulltext' or 'ocr'
\* item, whose contentId is in the Dedup Index (the case of C6).
C40_PipelineProgress ==
    \A p \in PMIDs :
        /\ InQueue(p, {"metadata"})
              ~> (/\ ev.op \in {"meta_skip", "meta_error", "meta_done"}
                  /\ ev.pmid = p /\ ev.stage = "metadata")
        /\ InQueue(p, {"fulltext"})
              ~> (ev.op = "fulltext_get" /\ ev.pmid = p)
        /\ InQueue(p, {"ocr"})
              ~> (ev.op = "ocr_done" /\ ev.pmid = p /\ ev.stage = "ocr")

====
